---- MODULE Spec2Model ----
(***************************************************************************)
(* Deep Agents (deepagentsjs): workspace state, reducers, virtual file     *)
(* system tools, todo tool and the sub-agent task tool.                    *)
(*                                                                         *)
(* Strings whose characters matter (file contents, old_string, new_string) *)
(* are sequences of one-character strings.  A files object is a sequence   *)
(* of [k, v] entries with pairwise distinct keys, in the insertion order   *)
(* a JavaScript object keeps.  An optional value (null / undefined) is a   *)
(* record [isNull, v].                                                     *)
(***************************************************************************)
EXTENDS Integers, Sequences, FiniteSets, TLC

\* ------------------------------------------------------------------ bounds

\* Tool calls (call identifiers) issued in one run, over all agents.
MaxCalls == 3
\* Longest string of the pure string checks (edit_file, read_file).
MaxStrLen == 3
\* Most sub-agents given to one createDeepAgent in the registry checks.
MaxSubagents == 2
\* Tool calls issued by two concurrent invocations together.
MaxSharedCalls == 2
\* Most tool calls of one turn in the check of the fold of a turn.
MaxTurnCalls == 2

\* ------------------------------------------------------------ basic values

Null == [isNull |-> TRUE, v |-> <<>>]
Some(x) == [isNull |-> FALSE, v |-> x]

Paths == {"/a", "/b"}

\* The own keys of an object (Object.keys).
Keys(f) == {f[i].k : i \in DOMAIN f}
\* k is an own key of the object.
Has(f, k) == \E i \in DOMAIN f : f[i].k = k

\* The property names every object literal inherits from Object.prototype.
ObjectPrototypeNames ==
  {"__proto__", "constructor", "hasOwnProperty", "isPrototypeOf",
   "propertyIsEnumerable", "toLocaleString", "toString", "valueOf",
   "__defineGetter__", "__defineSetter__", "__lookupGetter__", "__lookupSetter__"}

\* The value of an inherited property: a function or an object, never a
\* string; written as a sequence that no string of the model equals.
Inherited(k) == <<"Object.prototype", k>>
IsInherited(v) == Len(v) = 2 /\ v[1] = "Object.prototype"
\* Reading a missing property.
Undefined == <<"undefined">>

\* k in obj: own keys and inherited names.
In(f, k) == Has(f, k) \/ k \in ObjectPrototypeNames

\* obj[k]: the own value, else the inherited one, else undefined.
Get(f, k) ==
  IF Has(f, k) THEN f[CHOOSE i \in DOMAIN f : f[i].k = k].v
  ELSE IF k \in ObjectPrototypeNames THEN Inherited(k)
  ELSE Undefined

\* The property names that are array indices (canonical non-negative
\* integers); the ones up to 12 are all the model knows.
IndexKeys == <<"0", "1", "2", "3", "4", "5", "6", "7", "8", "9", "10", "11", "12">>
IsIndexKey(k) == \E i \in DOMAIN IndexKeys : IndexKeys[i] = k
IndexValue(k) == (CHOOSE i \in DOMAIN IndexKeys : IndexKeys[i] = k) - 1

Define_AlwaysAppends(f, k, v) == Append(f, [k |-> k, v |-> v])

\* Defining the own property k of an object (as object spread does): an
\* existing key keeps its position; a new key goes last, except that
\* array-index keys are kept in front of all other keys, in ascending
\* numeric order.
Define(f, k, v) ==
  IF Has(f, k)
    THEN [i \in DOMAIN f |-> IF f[i].k = k THEN [k |-> k, v |-> v] ELSE f[i]]
  ELSE IF IsIndexKey(k)
    THEN LET n == Cardinality({i \in DOMAIN f :
                                 IsIndexKey(f[i].k) /\ IndexValue(f[i].k) < IndexValue(k)})
         IN  SubSeq(f, 1, n) \o <<[k |-> k, v |-> v]>> \o SubSeq(f, n + 1, Len(f))
  ELSE Append(f, [k |-> k, v |-> v])

\* obj[k] = v on an object literal: the property is defined, except that
\* assigning to __proto__ (not an own key) runs the inherited setter, which
\* creates no key: a string is ignored, an object becomes the prototype.
Put(f, k, v) ==
  IF k = "__proto__" /\ ~Has(f, k) THEN f
  ELSE Define(f, k, v)

\* map.set(k, v) on a Map: an existing key keeps its position, a new key
\* goes last, whatever the key.
MapSet(f, k, v) ==
  IF Has(f, k)
    THEN [i \in DOMAIN f |-> IF f[i].k = k THEN [k |-> k, v |-> v] ELSE f[i]]
  ELSE Append(f, [k |-> k, v |-> v])

RECURSIVE Spread(_, _)
\* { ...left, ...right } of two objects.
Spread(left, right) ==
  IF right = <<>> THEN left
  ELSE Spread(Define(left, Head(right).k, Head(right).v), Tail(right))

\* ---------------------------------------------------------------- reducers

fileReducer_RightLoses(left, right) ==
  IF left.isNull THEN (IF right.isNull THEN <<>> ELSE right.v)
  ELSE IF right.isNull THEN left.v
  ELSE Spread(right.v, left.v)

\* fileReducer(left, right): left == null -> right || {}; right == null ->
\* left; otherwise { ...left, ...right }.
fileReducer(left, right) ==
  IF left.isNull THEN (IF right.isNull THEN <<>> ELSE right.v)
  ELSE IF right.isNull THEN left.v
  ELSE Spread(left.v, right.v)

todoReducer_EmptyKeepsOld(left, right) ==
  IF ~right.isNull /\ right.v # <<>> THEN right.v
  ELSE IF left.isNull THEN <<>> ELSE left.v

\* todoReducer(left, right): right != null -> right; otherwise left || [].
todoReducer(left, right) ==
  IF ~right.isNull THEN right.v
  ELSE IF left.isNull THEN <<>> ELSE left.v

messagesReducer_KeepsNewest(left, right) == IF right = <<>> THEN left ELSE right

\* The messages channel of the state: the update's messages are appended.
messagesReducer(left, right) == left \o right

\* ----------------------------------------------------------------- strings

\* The grave accent (U+0060), which a string of this language cannot hold.
Backtick == "U+0060"
Apostrophe == "'"

\* The characters of the strings the pure string checks enumerate.
Chars == {"a", "b", "$"}

\* Strings of at most n characters.
StrUpTo(n) == UNION {[1..m -> Chars] : m \in 0..n}

\* pattern occurs in s at (1-based) position i.
MatchAt(s, pattern, i) ==
  /\ i >= 1
  /\ i + Len(pattern) - 1 <= Len(s)
  /\ SubSeq(s, i, i + Len(pattern) - 1) = pattern

\* content.includes(old_string)
Includes(s, pattern) == \E i \in 1..(Len(s) + 1) : MatchAt(s, pattern, i)

\* s.indexOf(pattern), 1-based; 0 when absent.
IndexOf(s, pattern) ==
  IF Includes(s, pattern)
    THEN CHOOSE i \in 1..(Len(s) + 1) :
           /\ MatchAt(s, pattern, i)
           /\ \A j \in 1..(i - 1) : ~MatchAt(s, pattern, j)
    ELSE 0

RECURSIVE RegexMatches(_, _, _)
\* The match positions of new RegExp(escaped(pattern), "g") in s from position
\* from on: leftmost first, the next search starting after the match (one
\* further after an empty match).  The escaping makes every character of
\* pattern match itself.
RegexMatches(s, pattern, from) ==
  IF \E i \in from..(Len(s) + 1) : MatchAt(s, pattern, i)
    THEN LET i == CHOOSE i \in from..(Len(s) + 1) :
                    /\ MatchAt(s, pattern, i)
                    /\ \A j \in from..(i - 1) : ~MatchAt(s, pattern, j)
         IN  <<i>> \o RegexMatches(s, pattern,
                        IF pattern = <<>> THEN i + 1 ELSE i + Len(pattern))
    ELSE <<>>

RECURSIVE GetSubstitution(_, _, _, _)
\* The replacement text String.prototype.replace inserts for one match at
\* position pos of s (no capture groups): "$$" is "$", "$&" the matched
\* text, "$" with a grave accent the text before the match, "$" with an
\* apostrophe the text after it; any other "$" stands for itself.
GetSubstitution(matched, s, pos, replacement) ==
  IF replacement = <<>> THEN <<>>
  ELSE IF Head(replacement) = "$" /\ Len(replacement) >= 2
            /\ replacement[2] = "$"
    THEN <<"$">> \o GetSubstitution(matched, s, pos, SubSeq(replacement, 3, Len(replacement)))
  ELSE IF Head(replacement) = "$" /\ Len(replacement) >= 2
            /\ replacement[2] = "&"
    THEN matched \o GetSubstitution(matched, s, pos, SubSeq(replacement, 3, Len(replacement)))
  ELSE IF Head(replacement) = "$" /\ Len(replacement) >= 2
            /\ replacement[2] = Backtick
    THEN SubSeq(s, 1, pos - 1)
           \o GetSubstitution(matched, s, pos, SubSeq(replacement, 3, Len(replacement)))
  ELSE IF Head(replacement) = "$" /\ Len(replacement) >= 2
            /\ replacement[2] = Apostrophe
    THEN SubSeq(s, pos + Len(matched), Len(s))
           \o GetSubstitution(matched, s, pos, SubSeq(replacement, 3, Len(replacement)))
  ELSE <<Head(replacement)>> \o GetSubstitution(matched, s, pos, Tail(replacement))

RECURSIVE ReplaceAt(_, _, _, _, _)
\* s with the matches at the (ascending) positions replaced, the text before,
\* between and after them copied; from is the first position not yet copied.
ReplaceAt(s, pattern, replacement, positions, from) ==
  IF positions = <<>> THEN SubSeq(s, from, Len(s))
  ELSE LET i == Head(positions)
       IN  SubSeq(s, from, i - 1)
             \o GetSubstitution(pattern, s, i, replacement)
             \o ReplaceAt(s, pattern, replacement, Tail(positions), i + Len(pattern))

\* content.replace(new RegExp(escaped(old_string), "g"), new_string)
ReplaceRegexAll(s, pattern, replacement) ==
  ReplaceAt(s, pattern, replacement, RegexMatches(s, pattern, 1), 1)

\* content.replace(old_string, new_string): the first occurrence only.
ReplaceFirst(s, pattern, replacement) ==
  IF IndexOf(s, pattern) = 0 THEN s
  ELSE ReplaceAt(s, pattern, replacement, <<IndexOf(s, pattern)>>, 1)

\* ------------------------------------------------------------ tool results

NoUpdate == [files |-> Null, todos |-> Null, messages |-> <<>>]

\* A tool that returns a plain string (or array): no state update.
Str(tag, args) == [kind |-> "string", tag |-> tag, text |-> args, update |-> NoUpdate]

\* A tool that returns a Command({ update }).
Command(update) == [kind |-> "command", tag |-> "Command", text |-> <<>>, update |-> update]

\* A tool that returns the object literal { update }: no Command instance.
UpdateObject(update) == [kind |-> "object", tag |-> "Object", text |-> <<>>, update |-> update]

ToolMessage_WithoutCallId(content, id) ==
  [type |-> "tool", content |-> content, tool_call_id |-> 0]

\* new ToolMessage({ content, tool_call_id: config.toolCall?.id })
ToolMessage(content, id) == [type |-> "tool", content |-> content, tool_call_id |-> id]
UserMessage(content) == [type |-> "user", content |-> content, tool_call_id |-> 0]
AIMessage(content) == [type |-> "ai", content |-> content, tool_call_id |-> 0]

RECURSIVE Stringify(_)
\* JSON.stringify of a todo list, as the sequence of its strings.
Stringify(todos) ==
  IF todos = <<>> THEN <<>>
  ELSE <<Head(todos).content, Head(todos).status>> \o Stringify(Tail(todos))

\* ------------------------------------------------------------------- tools

\* state.files || {}
FilesOf(state) == IF state.files.isNull THEN <<>> ELSE state.files.v

\* write_todos: returns { update: { todos, messages } } as an object literal.
writeTodos(input, id) ==
  UpdateObject([files |-> Null,
           todos |-> Some(input.todos),
           messages |-> <<ToolMessage(<<"Updated todo list to">> \o Stringify(input.todos), id)>>])

\* ls
ls(state) == Str("keys", [i \in DOMAIN FilesOf(state) |-> FilesOf(state)[i].k])

\* An exception raised out of a tool's function.
Throw(tag) == [kind |-> "throw", tag |-> tag, text |-> <<>>, update |-> NoUpdate]

\* The line terminators of ECMAScript: LF, CR, and U+2028, U+2029, which a
\* string of this module cannot hold and which stand here under their names.
LineTerminators == {"\n", "\r", "U+2028", "U+2029"}

\* The space separators of Unicode (category Zs) other than the space itself,
\* under their names.
SpaceSeparators ==
  {"U+00A0", "U+1680", "U+2000", "U+2001", "U+2002", "U+2003", "U+2004",
   "U+2005", "U+2006", "U+2007", "U+2008", "U+2009", "U+200A", "U+202F",
   "U+205F", "U+3000"}

\* The characters String.prototype.trim removes: white space (TAB, VT, FF,
\* SP, the byte order mark and the space separators) and line terminators.
WhiteSpace ==
  {"\t", "U+000B", "\f", " ", "U+FEFF"} \cup SpaceSeparators \cup LineTerminators

RECURSIVE TrimStart(_)
TrimStart(s) ==
  IF s # <<>> /\ Head(s) \in WhiteSpace THEN TrimStart(Tail(s)) ELSE s

RECURSIVE TrimEnd(_)
TrimEnd(s) ==
  IF s # <<>> /\ s[Len(s)] \in WhiteSpace THEN TrimEnd(SubSeq(s, 1, Len(s) - 1)) ELSE s

\* content.trim()
Trim(s) == TrimEnd(TrimStart(s))

RECURSIVE Split(_)
\* content.split("\n"): the lines of content, one more than its newlines.
Split(s) ==
  IF \A i \in DOMAIN s : s[i] # "\n" THEN <<s>>
  ELSE LET i == CHOOSE j \in DOMAIN s :
                  s[j] = "\n" /\ \A k \in 1..(j - 1) : s[k] # "\n"
       IN  <<SubSeq(s, 1, i - 1)>> \o Split(SubSeq(s, i + 1, Len(s)))

RECURSIVE Join(_)
\* resultLines.join("\n")
Join(lines) ==
  IF lines = <<>> THEN <<>>
  ELSE IF Len(lines) = 1 THEN lines[1]
  ELSE lines[1] \o <<"\n">> \o Join(Tail(lines))

\* The decimal digits of a digit value.
DigitChar(d) == SubSeq(<<"0", "1", "2", "3", "4", "5", "6", "7", "8", "9">>, d + 1, d + 1)

RECURSIVE NumberToString(_)
\* lineNumber.toString() for a positive integer.
NumberToString(n) ==
  IF n < 10 THEN DigitChar(n) ELSE NumberToString(n \div 10) \o DigitChar(n % 10)

\* The width of the line-number field.
LineNumberWidth == 6

\* s.padStart(width): spaces in front up to the width, s itself if longer.
PadStart(s, width) ==
  [i \in 1..(IF Len(s) >= width THEN 0 ELSE width - Len(s)) |-> " "] \o s

\* The longest line read_file returns whole.
MaxLineLength == 2000

\* The limit read_file uses when none is given.
DefaultLimit == 2000

Truncate_KeepsAll(lineContent) == lineContent

\* lineContent.substring(0, 2000) when longer than 2000 characters.
Truncate(lineContent) ==
  IF Len(lineContent) > MaxLineLength
    THEN SubSeq(lineContent, 1, MaxLineLength) ELSE lineContent

\* One line of the cat -n format: number, tab, content.
FormatLine(lineNumber, lineContent) ==
  PadStart(NumberToString(lineNumber), LineNumberWidth) \o <<"\t">> \o Truncate(lineContent)

Min(a, b) == IF a < b THEN a ELSE b

readFile_RecordsTheRead(state, input) ==
  IF In(FilesOf(state), input.file_path)
    THEN Command([files |-> Null, todos |-> Some(<<>>), messages |-> <<>>])
    ELSE Str("Error: File not found", <<input.file_path>>)

\* read_file. lines is 0-based in the source: lines[i] there is
\* lines[i + 1] here; reading the length of lines[i] for a negative i raises.
\* A file_path that names an inherited property passes the "in" test and
\* gives a content that is no string: calling its trim raises.
readFile(state, input) ==
  LET mockFilesystem == FilesOf(state)
      offset == IF input.offset.isNull THEN 0 ELSE input.offset.v
      limit == IF input.limit.isNull THEN DefaultLimit ELSE input.limit.v
      content == Get(mockFilesystem, input.file_path)
      lines == Split(content)
      startIdx == offset
      endIdx == Min(startIdx + limit, Len(lines))
  IN  IF ~In(mockFilesystem, input.file_path)
        THEN Str("Error: File not found", <<input.file_path>>)
      ELSE IF IsInherited(content)
        THEN Throw("TypeError")
      ELSE IF content = <<>> \/ Trim(content) = <<>>
        THEN Str("System reminder: File exists but has empty contents", <<>>)
      ELSE IF startIdx >= Len(lines)
        THEN Str("Error: Line offset exceeds file length",
                 <<ToString(offset), ToString(Len(lines))>>)
      ELSE IF startIdx < endIdx /\ startIdx < 0
        THEN Throw("TypeError")
      ELSE Str("lines", Join([i \in 1..(IF endIdx > startIdx THEN endIdx - startIdx ELSE 0) |->
                                FormatLine(startIdx + i, lines[startIdx + i])]))

\* write_file: a copy of the state's files with files[file_path] = content.
writeFile(state, input, id) ==
  Command([files |-> Some(Put(FilesOf(state), input.file_path, input.content)),
           todos |-> Null,
           messages |-> <<ToolMessage(<<"Updated file", input.file_path>>, id)>>])

Occurrences_StopsAtFirst(content, old_string) ==
  IF Includes(content, old_string) THEN 1 ELSE 0

\* edit_file: the count of the uniqueness check.
Occurrences(content, old_string) == Len(RegexMatches(content, old_string, 1))

\* edit_file: the replacement.
NewContent(content, input) ==
  IF input.replace_all
    THEN ReplaceRegexAll(content, input.old_string, input.new_string)
    ELSE ReplaceFirst(content, input.old_string, input.new_string)

\* edit_file.  A file_path that names an inherited property passes the "in"
\* test and gives a content that is no string: calling its includes raises.
editFile(state, input, id) ==
  LET mockFilesystem == FilesOf(state)
      content == Get(mockFilesystem, input.file_path)
  IN  IF ~In(mockFilesystem, input.file_path)
        THEN Str("Error: File not found", <<input.file_path>>)
      ELSE IF IsInherited(content)
        THEN Throw("TypeError")
      ELSE IF ~Includes(content, input.old_string)
        THEN Str("Error: String not found in file", input.old_string)
      ELSE IF ~input.replace_all /\ Occurrences(content, input.old_string) > 1
        THEN Str("Error: String appears several times in file",
                 <<ToString(Occurrences(content, input.old_string))>>)
      ELSE IF ~input.replace_all /\ Occurrences(content, input.old_string) = 0
        THEN Str("Error: String not found in file", input.old_string)
      ELSE Command([files |-> Some(Put(mockFilesystem, input.file_path,
                                        NewContent(content, input))),
                    todos |-> Null,
                    messages |-> <<ToolMessage(<<"Updated file", input.file_path>>, id)>>])

\* ---------------------------------------------------------------- registry

\* BUILTIN_TOOLS of subAgent.ts: tool name -> tool.
BUILTIN_TOOLS ==
  << [k |-> "write_todos", v |-> "builtin"], [k |-> "read_file", v |-> "builtin"],
     [k |-> "write_file", v |-> "builtin"], [k |-> "edit_file", v |-> "builtin"],
     [k |-> "ls", v |-> "builtin"] >>

RECURSIVE ToolsMap(_)
\* createDeepAgent: if (tool.name) toolsMap[tool.name] = tool, over
\* [...BUILTIN_TOOLS, ...tools]; a tool whose name is empty is left out.
ToolsMap(toolList) ==
  IF toolList = <<>> THEN <<>>
  ELSE LET rest == ToolsMap(SubSeq(toolList, 1, Len(toolList) - 1))
           tool == toolList[Len(toolList)]
       IN  IF tool.k = "" THEN rest ELSE Put(rest, tool.k, tool.v)

\* createTaskTool: allTools = { ...BUILTIN_TOOLS, ...tools }.
AllTools(tools) == Spread(BUILTIN_TOOLS, tools)

RECURSIVE ResolveTools(_, _)
\* createTaskTool: for each name of subagent.tools, in order, allTools[name]
\* is pushed when it is truthy; otherwise the name is dropped with a warning.
\* allTools[name] is the tool of that name, or, for a name inherited from
\* Object.prototype, the inherited function or object, which is truthy too.
ResolveTools(toolNames, allTools) ==
  IF toolNames = <<>> THEN <<>>
  ELSE (IF Has(allTools, Head(toolNames))
          THEN <<[k |-> Head(toolNames), v |-> Get(allTools, Head(toolNames))]>>
        ELSE IF Head(toolNames) \in ObjectPrototypeNames
          THEN <<[k |-> Head(toolNames), v |-> "Object.prototype"]>>
          ELSE <<>>)
       \o ResolveTools(Tail(toolNames), allTools)

\* createTaskTool: the tools of one pre-created agent.
SubagentTools(subagent, allTools) ==
  IF subagent.tools.isNull THEN allTools
  ELSE ResolveTools(subagent.tools.v, allTools)

RECURSIVE CreateAgents_FirstWins(_, _)
CreateAgents_FirstWins(subagents, allTools) ==
  IF subagents = <<>> THEN <<>>
  ELSE LET rest == CreateAgents_FirstWins(SubSeq(subagents, 1, Len(subagents) - 1), allTools)
           s == subagents[Len(subagents)]
       IN  IF Has(rest, s.name) THEN rest
           ELSE MapSet(rest, s.name,
                       [tools |-> SubagentTools(s, allTools), prompt |-> s.prompt])

RECURSIVE CreateAgents(_, _)
\* createTaskTool: agentsMap.set(subagent.name, reactAgent) for each subagent.
CreateAgents(subagents, allTools) ==
  IF subagents = <<>> THEN <<>>
  ELSE MapSet(CreateAgents(SubSeq(subagents, 1, Len(subagents) - 1), allTools),
              subagents[Len(subagents)].name,
              [tools |-> SubagentTools(subagents[Len(subagents)], allTools),
               prompt |-> subagents[Len(subagents)].prompt])

\* The tools the caller passes to createDeepAgent: hello, the tool of
\* test_example.js, and plan, a tool that returns a Command.
UserTools == << [k |-> "hello", v |-> "user"], [k |-> "plan", v |-> "user"] >>

\* The subagents the caller passes to createDeepAgent.
SubAgents ==
  << [name |-> "researcher", prompt |-> "p1", tools |-> Null],
     [name |-> "writer", prompt |-> "p2",
      tools |-> Some(<<"write_file", "write_todos", "nope">>)] >>

\* createDeepAgent: the tool names of the top-level agent.
RootTools(userTools, subagents) ==
  Keys(BUILTIN_TOOLS \o userTools) \cup (IF Len(subagents) > 0 THEN {"task"} ELSE {})

\* -------------------------------------------------------------- task tool

TaskNotFound_AsCommand(agents, subagent_type) ==
  Command([files |-> Null, todos |-> Null,
           messages |-> <<ToolMessage(<<"Error: Agent not found", subagent_type>>, 0)>>])

\* The task tool's answer to a name that is not in agentsMap.
TaskNotFound(agents, subagent_type) ==
  Str("Error: Agent not found",
      <<subagent_type>> \o [i \in DOMAIN agents |-> agents[i].k])

LastContent_FirstMessage(result) ==
  IF result.messages = <<>> \/ result.messages[1].content = <<>>
    THEN <<"Task completed">>
    ELSE result.messages[1].content

\* result.messages?.slice(-1)[0]?.content || "Task completed"
LastContent(result) ==
  IF result.messages = <<>> \/ result.messages[Len(result.messages)].content = <<>>
    THEN <<"Task completed">>
    ELSE result.messages[Len(result.messages)].content

TaskSuccess_ReturnsNoFiles(result, id) ==
  Command([files |-> Null,
           todos |-> Null,
           messages |-> <<ToolMessage(LastContent(result), id)>>])

TaskSuccess_PropagateTodos(result, id) ==
  Command([files |-> Some(FilesOf(result)),
           todos |-> result.todos,
           messages |-> <<ToolMessage(LastContent(result), id)>>])

\* The task tool's Command after the nested agent returned result.
TaskSuccess(result, id) ==
  Command([files |-> Some(FilesOf(result)),
           todos |-> Null,
           messages |-> <<ToolMessage(LastContent(result), id)>>])

TaskFailure_ResetsTodos(input, errorMessage, id) ==
  Command([files |-> Null,
           todos |-> Some(<<>>),
           messages |-> <<ToolMessage(<<"Error executing task", input.description,
                                        input.subagent_type, errorMessage>>, id)>>])

\* The task tool's Command after the nested run threw.
TaskFailure(input, errorMessage, id) ==
  Command([files |-> Null,
           todos |-> Null,
           messages |-> <<ToolMessage(<<"Error executing task", input.description,
                                        input.subagent_type, errorMessage>>, id)>>])

ModifiedState_KeepsTranscript(currentState, description) ==
  [currentState EXCEPT !.messages = Append(@, UserMessage(<<description>>))]

\* modifiedState = { ...currentState, messages: [{ role: "user", content }] }
ModifiedState(currentState, description) ==
  [currentState EXCEPT !.messages = <<UserMessage(<<description>>)>>]

\* ------------------------------------------------------------------ runtime

\* The tools node createReactAgent puts over the tools: what it hands to the
\* channels for the tool call id.  A Command passes as it is.  Anything else
\* a tool returns becomes the content of one tool message of that call: a
\* string as it is, another value through JSON.stringify, and so the object
\* literal of write_todos, whose update is folded into no channel.  An
\* exception raised by the tool is caught and reported in a tool message.
ToolNode(ret, id) ==
  CASE ret.kind = "command" -> ret
    [] ret.kind = "string" ->
         Command([files |-> Null, todos |-> Null,
                  messages |-> <<ToolMessage(<<ret.tag>> \o ret.text, id)>>])
    [] ret.kind = "object" ->
         Command([files |-> Null, todos |-> Null,
                  messages |->
                    <<ToolMessage(<<"update", "todos">> \o Stringify(ret.update.todos.v)
                                    \o <<"messages">> \o ret.update.messages[1].content,
                                  id)>>])
    [] ret.kind = "throw" ->
         Command([files |-> Null, todos |-> Null,
                  messages |-> <<ToolMessage(<<"Error:", ret.tag,
                                               "Please fix your mistakes.">>, id)>>])

ApplyResult_OverwritesFiles(ws, ret) ==
  [messages |-> messagesReducer(ws.messages, ret.update.messages),
   todos |-> IF ret.update.todos.isNull THEN ws.todos
             ELSE Some(todoReducer(ws.todos, ret.update.todos)),
   files |-> IF ret.update.files.isNull THEN ws.files
             ELSE ret.update.files]

\* One tool result folded into the state: each channel an update names goes
\* through its reducer, the others are left alone.
ApplyResult(ws, ret) ==
  [messages |-> messagesReducer(ws.messages, ret.update.messages),
   todos |-> IF ret.update.todos.isNull THEN ws.todos
             ELSE Some(todoReducer(ws.todos, ret.update.todos)),
   files |-> IF ret.update.files.isNull THEN ws.files
             ELSE Some(fileReducer(ws.files, ret.update.files))]

RECURSIVE FoldResults(_, _)
\* The results of a turn folded into the state, in call order.
FoldResults(state, rets) ==
  IF rets = <<>> THEN state
  ELSE FoldResults(ApplyResult(state, Head(rets)), Tail(rets))

\* ------------------------------------------------------------------- state

VARIABLES
  agentsMap,  \* the task tool's registry: name -> pre-created agent
  stack,      \* the running agents: the top-level one first, each later one
              \* the child the one before it is waiting for
  nextId,     \* the next tool call identifier
  last,       \* the last tool call: its result and the state it was folded into
  pin,        \* pure checks: the inputs
  pout        \* pure checks: the function applied and its result

vars == <<agentsMap, stack, nextId, last, pin, pout>>

\* -------------------------------------------------------------- the inputs

T1 == [content |-> "x", status |-> "pending"]
T2 == [content |-> "y", status |-> "completed"]
TodoLists == {<<>>, <<T1, T1>>, <<T2, T1>>}
FileContents == {<<"b">>, <<"a", "a">>}
\* file_path is any string (z.string()): a path without a leading "/", or
\* one that is the name of an inherited property, is accepted like any other.
WriteInputs ==
  {[file_path |-> "/a", content |-> <<"a", "a">>],
   [file_path |-> "/b", content |-> <<"b">>]}
    \cup {[file_path |-> "1", content |-> <<"b">>],
          [file_path |-> "__proto__", content |-> <<"b">>]}
ReadInputs ==
  [file_path : {"/a"}, offset : {Null}, limit : {Null}]
    \cup {[file_path |-> "toString", offset |-> Null, limit |-> Null]}
EditInputs ==
  [file_path : {"/a"}, old_string : {<<"a">>}, new_string : {<<"b">>},
   replace_all : {TRUE}]
    \cup {[file_path |-> "constructor", old_string |-> <<"a">>, new_string |-> <<"b">>,
           replace_all |-> FALSE]}
TaskNames == {"researcher", "writer", "nobody"}
FinalContents == {<<>>, <<"done">>}

\* ------------------------------------------------------------------ agents

Top == stack[Len(stack)]
Depth == Len(stack)

\* The registry createTaskTool builds once, at construction.
Registry == CreateAgents(SubAgents, AllTools(ToolsMap(BUILTIN_TOOLS \o UserTools)))

\* The state an agent's channels hold once the results of its turn, so far,
\* are folded in call order into the state the turn began with.
Folded(f) == FoldResults(f.snap, f.rets)

NoCall == [op |-> "none", id |-> 0, depth |-> 0, input |-> <<>>,
           ret |-> Str("none", <<>>),
           pre |-> [messages |-> <<>>, todos |-> Null, files |-> Null],
           post |-> [messages |-> <<>>, todos |-> Null, files |-> Null],
           snap |-> [messages |-> <<>>, todos |-> Null, files |-> Null],
           child |-> [messages |-> <<>>, todos |-> Null, files |-> Null],
           alone |-> [stack |-> <<>>, nextId |-> 0]]

Frame_StartsFromDefaults(agent, input, id, tools, state) ==
  [agent |-> agent, input |-> input, id |-> id, tools |-> tools,
   snap |-> [state EXCEPT !.files = Some(<<>>), !.todos = Some(<<>>)],
   rets |-> <<>>, phase |-> "start", calls |-> 0, turnLog |-> <<>>]

\* An agent at the start of its run on state.  snap is the state of its
\* channels, the one every tool of a turn reads with getCurrentTaskInput();
\* rets are the results of the turn's calls, in call order, which the
\* channels receive when the tools node has run them all.
Frame(agent, input, id, tools, state) ==
  [agent |-> agent, input |-> input, id |-> id, tools |-> tools,
   snap |-> state, rets |-> <<>>, phase |-> "start", calls |-> 0, turnLog |-> <<>>]

\* The top-level invocation is given messages only; the state schema in use
\* either fills todos and files with their defaults or leaves them absent.
InitialStates ==
  { [messages |-> <<UserMessage(<<"hi">>)>>, todos |-> Some(<<>>), files |-> Some(<<>>)],
    [messages |-> <<UserMessage(<<"hi">>)>>, todos |-> Null, files |-> Null] }

NoPure == [fn |-> "none"]

\* The tool of the caller in test_example.js: it returns a greeting, a
\* string, whatever the state.
hello(input) == Str("Hello", <<input.name>>)

\* A tool of the caller that returns a Command, as createDeepAgent accepts
\* any tool: this one sets todos.
plan(input, id) ==
  Command([files |-> Null, todos |-> Some(input.todos),
           messages |-> <<ToolMessage(<<"Planned">>, id)>>])

\* The function of the called tool, applied to the state the tool reads
\* with getCurrentTaskInput(); for task, the answer to a name that is not
\* registered.
RunTool(call, state, id) ==
  CASE call.op = "write_todos" -> writeTodos(call.input, id)
    [] call.op = "ls" -> ls(state)
    [] call.op = "read_file" -> readFile(state, call.input)
    [] call.op = "write_file" -> writeFile(state, call.input, id)
    [] call.op = "edit_file" -> editFile(state, call.input, id)
    [] call.op = "hello" -> hello(call.input)
    [] call.op = "plan" -> plan(call.input, id)
    [] call.op = "task" -> TaskNotFound(Registry, call.input.subagent_type)

\* The path and content a write or edit call sets.
Written(call, ret) ==
  IF call.op = "write_file"
    THEN <<[path |-> call.input.file_path, content |-> call.input.content]>>
  ELSE IF call.op = "edit_file" /\ ret.kind = "command"
    THEN <<[path |-> call.input.file_path,
            content |-> Get(ret.update.files.v, call.input.file_path)]>>
  ELSE <<>>

\* One step of an invocation that runs alone: the configuration (its running
\* agents and its next call identifier) after the event e, which is a model
\* answer, a tool call, a dispatch, or the end of a nested run.  Nothing but
\* the configuration and the registry of construction time enters.
AloneStep(cfg, e) ==
  LET n == Len(cfg.stack)
      top == cfg.stack[n]
      parent == cfg.stack[n - 1]
      ret == RunTool(e, top.snap, cfg.nextId)
      back == IF e.op = "task_ok" THEN TaskSuccess(Folded(top), top.id)
              ELSE TaskFailure(top.input, e.input.errorMessage, top.id)
  IN  CASE e.op = "model" ->
             [cfg EXCEPT !.stack[n] =
                [top EXCEPT !.snap = [Folded(top) EXCEPT
                                        !.messages = Append(@, AIMessage(e.input.content))],
                            !.rets = <<>>,
                            !.phase = IF e.input.final THEN "done" ELSE "tools",
                            !.calls = 0, !.turnLog = <<>>]]
        [] e.op = "task" /\ Has(Registry, e.input.subagent_type) ->
             [stack |-> Append(cfg.stack,
                               Frame(e.input.subagent_type, e.input, cfg.nextId,
                                     Keys(Get(Registry, e.input.subagent_type).tools),
                                     ModifiedState(top.snap, e.input.description))),
              nextId |-> cfg.nextId + 1]
        [] e.op \in {"task_ok", "task_failed"} ->
             [stack |-> [SubSeq(cfg.stack, 1, n - 1) EXCEPT ![n - 1] =
                           [parent EXCEPT !.rets = Append(@, ToolNode(back, top.id)),
                                          !.calls = @ + 1]],
              nextId |-> cfg.nextId]
        [] OTHER ->
             [stack |-> [cfg.stack EXCEPT ![n] =
                           [top EXCEPT !.rets = Append(@, ToolNode(ret, cfg.nextId)),
                                       !.calls = @ + 1,
                                       !.turnLog = @ \o Written(e, ret)]],
              nextId |-> cfg.nextId + 1]

\* Where two invocations share the agent, each one's history carries the
\* configuration of its twin: the same invocation making the same choices
\* with nothing else running.
Twin(op, input) ==
  IF pout.fn = "shared"
    THEN AloneStep(last.alone,
                   [op |-> IF op \in {"task_unknown", "task_start"} THEN "task" ELSE op,
                    input |-> input])
    ELSE NoCall.alone

Init ==
  /\ agentsMap = Registry
  /\ \E st \in InitialStates :
       stack = << Frame("main", [description |-> "hi", subagent_type |-> "main"], 0,
                        RootTools(UserTools, SubAgents), st) >>
  /\ nextId = 1
  /\ last = NoCall
  /\ pin = NoPure
  /\ pout = NoPure

\* The agent node: the channels have received the results of the turn, in
\* call order, and the model answers.  An answer with tool calls (final =
\* FALSE) opens a turn whose tools all read the state as it is now; an
\* answer without tool calls ends the agent's run.
ModelStep ==
  /\ Top.phase = "start" \/ (Top.phase = "tools" /\ Top.calls >= 1)
  /\ \E final \in BOOLEAN :
     \E content \in (IF final THEN FinalContents ELSE {<<>>}) :
       /\ stack' = [stack EXCEPT ![Depth] =
                      [Top EXCEPT !.snap = [Folded(Top) EXCEPT
                                              !.messages = Append(@, AIMessage(content))],
                                  !.rets = <<>>,
                                  !.phase = IF final THEN "done" ELSE "tools",
                                  !.calls = 0, !.turnLog = <<>>]]
       /\ last' = [NoCall EXCEPT !.op = "model", !.depth = Depth,
                                 !.alone = Twin("model", [final |-> final,
                                                          content |-> content])]
  /\ UNCHANGED <<agentsMap, nextId, pin, pout>>

\* How far two concurrent invocations are followed: MaxSharedCalls calls,
\* both together.  It bounds the runs that are explored and is no condition
\* of the program; the twin of an invocation (AloneStep) has no part in it.
SharedBudget ==
  pout.fn = "shared" => (nextId - 1) + (pin.nextId - 1) < MaxSharedCalls

CanCall(tool) ==
  /\ Top.phase = "tools"
  /\ tool \in Top.tools
  /\ nextId <= MaxCalls
  /\ SharedBudget

Called_WritesThrough(op, input, ret, log) ==
  /\ stack' = [d \in DOMAIN stack |->
                 IF d = Depth
                   THEN [Top EXCEPT !.rets = Append(@, ToolNode(ret, nextId)),
                                    !.calls = @ + 1, !.turnLog = @ \o log]
                   ELSE [stack[d] EXCEPT !.rets = Append(@, ToolNode(ret, nextId))]]
  /\ last' = [op |-> op, id |-> nextId, depth |-> Depth, input |-> input, ret |-> ret,
              pre |-> Folded(Top),
              post |-> ApplyResult(Folded(Top), ToolNode(ret, nextId)),
              snap |-> Top.snap, child |-> NoCall.child, alone |-> Twin(op, input)]
  /\ nextId' = nextId + 1
  /\ UNCHANGED <<agentsMap, pin, pout>>

\* The tools node runs one tool call of the turn on the turn's state; what
\* the tools node makes of the tool's return is kept, in call order, for the
\* channels.  pre and post are what the channels hold before and after that
\* result is folded.
Called(op, input, ret, log) ==
  /\ stack' = [stack EXCEPT ![Depth] =
                 [Top EXCEPT !.rets = Append(@, ToolNode(ret, nextId)),
                             !.calls = @ + 1, !.turnLog = @ \o log]]
  /\ last' = [op |-> op, id |-> nextId, depth |-> Depth, input |-> input, ret |-> ret,
              pre |-> Folded(Top),
              post |-> ApplyResult(Folded(Top), ToolNode(ret, nextId)),
              snap |-> Top.snap, child |-> NoCall.child, alone |-> Twin(op, input)]
  /\ nextId' = nextId + 1
  /\ UNCHANGED <<agentsMap, pin, pout>>

WriteTodos ==
  /\ CanCall("write_todos")
  /\ \E todos \in {<<T1, T1>>} :
       Called("write_todos", [todos |-> todos],
              writeTodos([todos |-> todos], nextId), <<>>)

Ls ==
  /\ CanCall("ls")
  /\ Called("ls", <<>>, ls(Top.snap), <<>>)

ReadFile ==
  /\ CanCall("read_file")
  /\ \E input \in ReadInputs :
       Called("read_file", input, readFile(Top.snap, input), <<>>)

WriteFile ==
  /\ CanCall("write_file")
  /\ \E input \in WriteInputs :
       Called("write_file", input, writeFile(Top.snap, input, nextId),
              <<[path |-> input.file_path, content |-> input.content]>>)

EditFile ==
  /\ CanCall("edit_file")
  /\ \E input \in EditInputs :
       LET ret == editFile(Top.snap, input, nextId)
       IN  Called("edit_file", input, ret,
                  IF ret.kind = "command"
                    THEN <<[path |-> input.file_path,
                            content |-> Get(ret.update.files.v, input.file_path)]>>
                    ELSE <<>>)

\* The caller's tools.
Hello ==
  /\ CanCall("hello")
  /\ \E input \in {[name |-> "Ann"]} :
       Called("hello", input, hello(input), <<>>)

Plan ==
  /\ CanCall("plan")
  /\ \E input \in {[todos |-> <<T2, T1>>]} :
       Called("plan", input, plan(input, nextId), <<>>)

TaskUnknown_RegistersTheName ==
  /\ CanCall("task")
  /\ \E name \in TaskNames :
       LET input == [description |-> "do X", subagent_type |-> name]
           ret == TaskNotFound(agentsMap, name)
       IN  /\ ~Has(agentsMap, name)
           /\ stack' = [stack EXCEPT ![Depth] =
                          [Top EXCEPT !.rets = Append(@, ToolNode(ret, nextId)),
                                      !.calls = @ + 1]]
           /\ last' = [op |-> "task_unknown", id |-> nextId, depth |-> Depth,
                       input |-> input, ret |-> ret,
                       pre |-> Folded(Top),
                       post |-> ApplyResult(Folded(Top), ToolNode(ret, nextId)),
                       snap |-> Top.snap, child |-> NoCall.child,
                       alone |-> Twin("task_unknown", input)]
           /\ agentsMap' = MapSet(agentsMap, name, [tools |-> <<>>, prompt |-> ""])
  /\ nextId' = nextId + 1
  /\ UNCHANGED <<pin, pout>>

\* The task tool, called with a name that is not registered.
TaskUnknown ==
  /\ CanCall("task")
  /\ \E name \in TaskNames :
       /\ ~Has(agentsMap, name)
       /\ Called("task_unknown", [description |-> "do X", subagent_type |-> name],
                 TaskNotFound(agentsMap, name), <<>>)

TaskStart_CreatesAgentPerCall ==
  /\ CanCall("task")
  /\ \E name \in TaskNames :
       /\ Has(agentsMap, name)
       /\ LET subagent == SubAgents[CHOOSE i \in DOMAIN SubAgents : SubAgents[i].name = name]
              subagentTools ==
                IF subagent.tools.isNull THEN <<>>
                ELSE ResolveTools(subagent.tools.v,
                                  AllTools(ToolsMap(BUILTIN_TOOLS \o UserTools)))
              input == [description |-> "do X", subagent_type |-> name]
          IN  /\ stack' = Append(stack,
                            Frame(name, input, nextId, Keys(subagentTools),
                                  ModifiedState(Top.snap, "do X")))
              /\ last' = [NoCall EXCEPT !.op = "task_start", !.id = nextId, !.depth = Depth,
                                        !.input = input,
                                        !.pre = Folded(Top), !.post = Folded(Top),
                                        !.snap = Top.snap,
                                        !.child = ModifiedState(Top.snap, "do X"),
                                        !.alone = Twin("task_start", input)]
  /\ nextId' = nextId + 1
  /\ UNCHANGED <<agentsMap, pin, pout>>

\* The task tool, called with a registered name: the pre-created agent is
\* invoked on the modified state, and the caller waits for it.
TaskStart ==
  /\ CanCall("task")
  /\ \E name \in TaskNames :
       LET input == [description |-> "do X", subagent_type |-> name]
       IN  /\ Has(agentsMap, name)
           /\ stack' = Append(stack,
                         Frame(name, input, nextId, Keys(Get(agentsMap, name).tools),
                               ModifiedState(Top.snap, "do X")))
           /\ last' = [NoCall EXCEPT !.op = "task_start", !.id = nextId, !.depth = Depth,
                                     !.input = input,
                                     !.pre = Folded(Top), !.post = Folded(Top),
                                     !.snap = Top.snap,
                                     !.child = ModifiedState(Top.snap, "do X"),
                                     !.alone = Twin("task_start", input)]
  /\ nextId' = nextId + 1
  /\ UNCHANGED <<agentsMap, pin, pout>>

\* The nested agent's run ended: the task tool returns its Command, which
\* takes its place among the results of the caller's turn.
Returned(op, ret, errorMessage) ==
  LET parent == stack[Depth - 1]
  IN  /\ stack' = [SubSeq(stack, 1, Depth - 1) EXCEPT ![Depth - 1] =
                     [parent EXCEPT !.rets = Append(@, ToolNode(ret, Top.id)),
                                    !.calls = @ + 1]]
      /\ last' = [op |-> op, id |-> Top.id, depth |-> Depth - 1,
                  input |-> Top.input, ret |-> ret,
                  pre |-> Folded(parent),
                  post |-> ApplyResult(Folded(parent), ToolNode(ret, Top.id)),
                  snap |-> parent.snap, child |-> Folded(Top),
                  alone |-> Twin(op, [errorMessage |-> errorMessage])]
      /\ UNCHANGED <<agentsMap, nextId, pin, pout>>

TaskFinish ==
  /\ Depth > 1
  /\ Top.phase = "done"
  /\ Returned("task_ok", TaskSuccess(Folded(Top), Top.id), "")

\* The messages of the errors a nested run throws.
ErrorMessages == {"boom"}

\* The nested run throws (a model error, an internal exception) at any
\* point of the child's run.
TaskFail ==
  /\ Depth > 1
  /\ \E errorMessage \in ErrorMessages :
       Returned("task_failed", TaskFailure(Top.input, errorMessage, Top.id), errorMessage)

Next ==
  \/ ModelStep
  \/ WriteTodos
  \/ Ls
  \/ ReadFile
  \/ WriteFile
  \/ EditFile
  \/ Hello
  \/ Plan
  \/ TaskUnknown
  \/ TaskStart
  \/ TaskFinish
  \/ TaskFail

Spec == Init /\ [][Next]_vars

\* ------------------------------------------------ the reducers on their own

\* The main machine's variables, at rest while a function is checked alone.
AtRest == agentsMap = <<>> /\ stack = <<>> /\ nextId = 0 /\ last = NoCall

\* Every files object over Paths and FileContents, in every key order.
FileMaps ==
  {<<>>}
    \cup {<<[k |-> p, v |-> c]>> : p \in Paths, c \in FileContents}
    \cup {f \in {<<[k |-> p, v |-> c], [k |-> q, v |-> e]>> :
                    p \in Paths, q \in Paths, c \in FileContents, e \in FileContents} :
            f[1].k # f[2].k}

OptFiles == {Null} \cup {Some(f) : f \in FileMaps}
OptTodos == {Null} \cup {Some(t) : t \in TodoLists \cup {<<T1>>}}

InitReducer ==
  /\ AtRest
  /\ pin \in [fl : OptFiles, fr : OptFiles, tl : OptTodos, tr : OptTodos]
  /\ pout = NoPure

ApplyFileReducer ==
  /\ pout.fn = "none"
  /\ pout' = [fn |-> "fileReducer", res |-> fileReducer(pin.fl, pin.fr)]
  /\ UNCHANGED <<agentsMap, stack, nextId, last, pin>>

ApplyTodoReducer ==
  /\ pout.fn = "none"
  /\ pout' = [fn |-> "todoReducer", res |-> todoReducer(pin.tl, pin.tr)]
  /\ UNCHANGED <<agentsMap, stack, nextId, last, pin>>

NextReducer == ApplyFileReducer \/ ApplyTodoReducer

SpecReducer == InitReducer /\ [][NextReducer]_vars

\* ------------------------------------------------- edit_file on its own

\* The new_string values tried: plain text, the empty string, and the "$"
\* sequences String.prototype.replace gives a meaning to.
NewStrings ==
  { <<>>, <<"b">>, <<"a", "b">>, <<"$">>, <<"$", "$">>, <<"$", "&">>,
    <<"$", Backtick>>, <<"$", Apostrophe>>, <<"b", "$", "&">> }

\* The state edit_file is run on: the file under edit and one other file.
EditState(content) ==
  [messages |-> <<>>, todos |-> Some(<<>>),
   files |-> Some(<<[k |-> "/a", v |-> content], [k |-> "/b", v |-> <<"a", "b">>]>>)]

InitEdit ==
  /\ AtRest
  /\ pin \in [content : StrUpTo(MaxStrLen),
              file_path : {"/a", "/c", "toString"},
              old_string : StrUpTo(MaxStrLen - 1),
              new_string : NewStrings,
              replace_all : BOOLEAN]
  /\ pout = NoPure

EditInput ==
  [file_path |-> pin.file_path, old_string |-> pin.old_string,
   new_string |-> pin.new_string, replace_all |-> pin.replace_all]

ApplyEdit ==
  /\ pout.fn = "none"
  /\ LET ret == editFile(EditState(pin.content), EditInput, 1)
     IN  pout' = [fn |-> "editFile", ret |-> ret,
                  post |-> ApplyResult(EditState(pin.content), ret)]
  /\ UNCHANGED <<agentsMap, stack, nextId, last, pin>>

NextEdit == ApplyEdit

SpecEdit == InitEdit /\ [][NextEdit]_vars

\* ------------------------------------------------- read_file on its own

ReadChars == {"a", " ", "\n", "\r"}

\* A line one character longer than read_file returns whole.
LongLine == [i \in 1..(MaxLineLength + 1) |-> "a"]

\* A content of twelve lines, the last one "a": line numbers of two digits.
TwelveLines == [i \in 1..12 |-> IF i = 12 THEN "a" ELSE "\n"]

ReadContents ==
  UNION {[1..m -> ReadChars] : m \in 0..MaxStrLen}
    \cup {LongLine, <<"a", "\n">> \o LongLine, TwelveLines}

ReadOffsets == {Null} \cup {Some(n) : n \in (0 - 1)..(MaxStrLen + 1)}

ReadLimits == {Null} \cup {Some(n) : n \in (0 - 1)..2}

InitRead ==
  /\ AtRest
  /\ pin \in [content : ReadContents,
              file_path : {"/a", "/c", "toString"},
              offset : ReadOffsets,
              limit : ReadLimits]
  /\ pout = NoPure

ReadInput ==
  [file_path |-> pin.file_path, offset |-> pin.offset, limit |-> pin.limit]

ApplyRead ==
  /\ pout.fn = "none"
  /\ LET ret == readFile(EditState(pin.content), ReadInput)
     IN  pout' = [fn |-> "readFile", ret |-> ret,
                  post |-> ApplyResult(EditState(pin.content), ret)]
  /\ UNCHANGED <<agentsMap, stack, nextId, last, pin>>

NextRead == ApplyRead

SpecRead == InitRead /\ [][NextRead]_vars

\* ------------------------------------------------ the registry on its own

\* Lists of caller-supplied tools; one of them has the name of a built-in.
UserToolLists ==
  { <<>>,
    << [k |-> "hello", v |-> "user"] >>,
    << [k |-> "ls", v |-> "user"] >>,
    << [k |-> "hello", v |-> "user"], [k |-> "ls", v |-> "user"] >>,
    << [k |-> "", v |-> "user"], [k |-> "__proto__", v |-> "user"] >> }

ToolNameLists ==
  { Null, Some(<<>>), Some(<<"ls", "nope">>), Some(<<"hello", "write_file">>),
    Some(<<"ls", "toString">>) }

SubAgentRecords ==
  [name : {"researcher", "writer"}, prompt : {"p"}, tools : ToolNameLists]

\* The model parameter: absent, or a model the caller made.
ModelParams == {Null, Some("gpt-4o")}

\* A language model instance.
Model(name) == [kind |-> "model", tag |-> name, text |-> <<>>, update |-> NoUpdate]

\* getDefaultModel(): raises, there is no default model.
getDefaultModel == Throw("Error: A model must be provided to createDeepAgent")

SubAgentLists == UNION {[1..n -> SubAgentRecords] : n \in 1..MaxSubagents}

InitRegistry ==
  /\ AtRest
  /\ pin \in [tools : UserToolLists, subagents : SubAgentLists, model : ModelParams]
  /\ pout = NoPure

\* createDeepAgent up to the creation of the task tool.  The parameter
\* defaults are evaluated first: without a model, getDefaultModel() is called
\* and what it raises leaves createDeepAgent.
ApplyRegistry ==
  /\ pout.fn = "none"
  /\ LET model == IF pin.model.isNull THEN getDefaultModel ELSE Model(pin.model.v)
     IN  pout' = IF model.kind = "throw"
                   THEN [fn |-> "createDeepAgent", ret |-> model]
                   ELSE [fn |-> "createTaskTool",
                         model |-> model,
                         rootTools |-> RootTools(pin.tools, pin.subagents),
                         agents |-> CreateAgents(pin.subagents,
                                      AllTools(ToolsMap(BUILTIN_TOOLS \o pin.tools)))]
  /\ UNCHANGED <<agentsMap, stack, nextId, last, pin>>

NextRegistry == ApplyRegistry

SpecRegistry == InitRegistry /\ [][NextRegistry]_vars

\* ------------------------------------- two invocations of one deep agent

\* Both invocations are given messages only, under the schema with defaults.
SharedInitialState ==
  [messages |-> <<UserMessage(<<"hi">>)>>, todos |-> Some(<<>>), files |-> Some(<<>>)]

\* Two top-level invocations of the same agent (one catalog, one agentsMap),
\* each on its own state.  stack, nextId and last are those of the invocation
\* that takes the next step; pin holds the other one's.
InitShared ==
  /\ agentsMap = Registry
  /\ stack = << Frame("main", [description |-> "hi", subagent_type |-> "main"], 0,
                      RootTools(UserTools, SubAgents), SharedInitialState) >>
  /\ nextId = 1
  /\ last = [NoCall EXCEPT !.alone = [stack |-> stack, nextId |-> 1]]
  /\ pin = [stack |-> stack, nextId |-> 1, last |-> last]
  /\ pout = [fn |-> "shared", running |-> 1]

\* The scheduler turns to the other invocation.
Switch ==
  /\ pout.fn = "shared"
  /\ stack' = pin.stack
  /\ nextId' = pin.nextId
  /\ last' = pin.last
  /\ pin' = [stack |-> stack, nextId |-> nextId, last |-> last]
  /\ pout' = [pout EXCEPT !.running = 3 - @]
  /\ UNCHANGED agentsMap

NextShared == Next \/ Switch

SpecShared == InitShared /\ [][NextShared]_vars

\* ------------------------------------------------- one turn on its own

\* The objects of a turn live in a heap: a files object or a todos array is
\* a cell of it, and a state, an update or a variable of a tool holds the
\* cell's address.  Two holders of one address hold one object: what one of
\* them writes, the other reads.

\* A new object ({}, [], a spread) holding v; its address is the heap's
\* new length.
New(h, v) == Append(h, v)

\* The state whose files and todos are the objects st holds the addresses of.
ValueOf(h, st) ==
  [messages |-> st.messages,
   todos |-> IF st.todos.isNull THEN Null ELSE Some(h[st.todos.v]),
   files |-> IF st.files.isNull THEN Null ELSE Some(h[st.files.v])]

fileReducerAt_AssignsIntoLeft(h, left, right) ==
  IF left.isNull
    THEN (IF right.isNull THEN [heap |-> New(h, <<>>), at |-> Len(h) + 1]
          ELSE [heap |-> h, at |-> right.v])
  ELSE IF right.isNull THEN [heap |-> h, at |-> left.v]
  ELSE [heap |-> [h EXCEPT ![left.v] = Spread(@, h[right.v])], at |-> left.v]

\* fileReducer on objects: right || {} and left are the objects given;
\* { ...left, ...right } is a new one.
fileReducerAt(h, left, right) ==
  IF left.isNull
    THEN (IF right.isNull THEN [heap |-> New(h, <<>>), at |-> Len(h) + 1]
          ELSE [heap |-> h, at |-> right.v])
  ELSE IF right.isNull THEN [heap |-> h, at |-> left.v]
  ELSE [heap |-> New(h, Spread(h[left.v], h[right.v])), at |-> Len(h) + 1]

\* todoReducer on arrays: right and left are the arrays given; [] is new.
todoReducerAt(h, left, right) ==
  IF ~right.isNull THEN [heap |-> h, at |-> right.v]
  ELSE IF ~left.isNull THEN [heap |-> h, at |-> left.v]
  ELSE [heap |-> New(h, <<>>), at |-> Len(h) + 1]

\* One result folded into the channels: each channel the update names goes
\* through its reducer.
ApplyResultAt(h, st, ret) ==
  LET t == todoReducerAt(h, st.todos, ret.update.todos)
      h1 == IF ret.update.todos.isNull THEN h ELSE t.heap
      f == fileReducerAt(h1, st.files, ret.update.files)
      h2 == IF ret.update.files.isNull THEN h1 ELSE f.heap
  IN  [heap |-> h2,
       state |-> [messages |-> messagesReducer(st.messages, ret.update.messages),
                  todos |-> IF ret.update.todos.isNull THEN st.todos ELSE Some(t.at),
                  files |-> IF ret.update.files.isNull THEN st.files ELSE Some(f.at)]]

RECURSIVE FoldResultsAt(_, _, _)
\* The results of a turn folded into the channels, in call order.
FoldResultsAt(h, st, rets) ==
  IF rets = <<>> THEN [heap |-> h, state |-> st]
  ELSE LET one == ApplyResultAt(h, st, Head(rets))
       IN  FoldResultsAt(one.heap, one.state, Tail(rets))

\* The channels of an agent invoked on input: each channel starts from its
\* default ({} and []) and takes the input's value through its reducer.
Invoke(h, input) ==
  LET h1 == New(h, <<>>)
      f == fileReducerAt(h1, Some(Len(h1)), input.files)
      h2 == New(f.heap, <<>>)
      t == todoReducerAt(h2, Some(Len(h2)), input.todos)
  IN  [heap |-> t.heap,
       state |-> [messages |-> input.messages, todos |-> Some(t.at), files |-> Some(f.at)]]

writeFileAt_InPlace(h, st, input, id) ==
  [heap |-> [h EXCEPT ![st.files.v] = Put(@, input.file_path, input.content)],
   ret |-> Command([files |-> st.files, todos |-> Null,
                    messages |-> <<ToolMessage(<<"Updated file", input.file_path>>, id)>>])]

\* write_file on objects: files is a new object, the spread of state.files
\* (or of {}), and files[file_path] = content is written into it.
writeFileAt(h, st, input, id) ==
  LET files == Len(h) + 1
      spread == New(h, Spread(<<>>, IF st.files.isNull THEN <<>> ELSE h[st.files.v]))
  IN  [heap |-> [spread EXCEPT ![files] = Put(@, input.file_path, input.content)],
       ret |-> Command([files |-> Some(files), todos |-> Null,
                        messages |-> <<ToolMessage(<<"Updated file", input.file_path>>, id)>>])]

\* edit_file on objects: mockFilesystem is a new object, the spread of
\* state.files (or of {}); the checks read it, and the new content is
\* written into it.
editFileAt(h, st, input, id) ==
  LET mockFilesystem == Len(h) + 1
      spread == New(h, Spread(<<>>, IF st.files.isNull THEN <<>> ELSE h[st.files.v]))
      answer == editFile(ValueOf(spread, [st EXCEPT !.files = Some(mockFilesystem)]),
                         input, id)
  IN  IF answer.kind = "command"
        THEN [heap |-> [spread EXCEPT ![mockFilesystem] = answer.update.files.v],
              ret |-> Command([answer.update EXCEPT !.files = Some(mockFilesystem)])]
        ELSE [heap |-> spread, ret |-> answer]

\* The called tool's function on objects.  write_file, edit_file and a
\* caller's tool that returns todos make an object of their own; the other
\* tools only read.
RunToolAt(h, st, call, id) ==
  IF call.op = "write_file" THEN writeFileAt(h, st, call.input, id)
  ELSE IF call.op = "edit_file" THEN editFileAt(h, st, call.input, id)
  ELSE IF call.op = "plan"
    THEN [heap |-> New(h, call.input.todos),
          ret |-> Command([plan(call.input, id).update EXCEPT !.todos = Some(Len(h) + 1)])]
  ELSE [heap |-> h, ret |-> RunTool(call, ValueOf(h, st), id)]

\* The calls the agent a dispatch starts goes on to make, one a turn.
ChildScripts ==
  { <<[op |-> "write_file", input |-> [file_path |-> "/a", content |-> <<"a", "a">>]]>>,
    <<[op |-> "edit_file",
       input |-> [file_path |-> "/b", old_string |-> <<"a">>, new_string |-> <<"b">>,
                  replace_all |-> FALSE]],
      [op |-> "plan", input |-> [todos |-> <<T2, T1>>]]>> }

\* The tool calls a model answer can request.  A dispatch comes with what
\* its child will do and whether the child's run throws in the end.
TurnCalls ==
  {[op |-> "write_file", input |-> [file_path |-> "/a", content |-> <<"b">>]],
   [op |-> "write_file", input |-> [file_path |-> "__proto__", content |-> <<"b">>]],
   [op |-> "edit_file",
    input |-> [file_path |-> "/a", old_string |-> <<"a">>, new_string |-> <<"b">>,
               replace_all |-> TRUE]],
   [op |-> "write_todos", input |-> [todos |-> <<T1, T1>>]],
   [op |-> "hello", input |-> [name |-> "Ann"]],
   [op |-> "plan", input |-> [todos |-> <<T1, T1>>]],
   [op |-> "read_file", input |-> [file_path |-> "/a", offset |-> Null, limit |-> Null]],
   [op |-> "ls", input |-> <<>>],
   [op |-> "task", input |-> [description |-> "do X", subagent_type |-> "nobody"],
    script |-> <<>>, throws |-> FALSE],
   [op |-> "task", input |-> [description |-> "do X", subagent_type |-> "researcher"],
    script |-> CHOOSE s \in ChildScripts : Len(s) = 1, throws |-> TRUE]}
    \cup {[op |-> "task", input |-> [description |-> "do X", subagent_type |-> "researcher"],
           script |-> s, throws |-> FALSE] : s \in ChildScripts}

IsDispatch(call) == call.op = "task" /\ Has(Registry, call.input.subagent_type)


\* A turn: its starting state and its calls, in call order.  order lists
\* the calls as they return.
InitTurn ==
  /\ AtRest
  /\ pin \in [snap : {EditState(<<"a", "a">>), SharedInitialState},
              calls : UNION {[1..n -> TurnCalls] : n \in 1..MaxTurnCalls}]
  /\ pout = NoPure

\* snap holds the state object of the turn, the one getCurrentTaskInput()
\* gives to every tool the turn calls.
StartTurn ==
  /\ pout.fn = "none"
  /\ pout' = [fn |-> "turn",
              heap |-> <<pin.snap.files.v, pin.snap.todos.v>>,
              snap |-> [messages |-> pin.snap.messages, todos |-> Some(2), files |-> Some(1)],
              at |-> [i \in DOMAIN pin.calls |-> "called"],
              rets |-> [i \in DOMAIN pin.calls |-> Str("pending", <<>>)],
              child |-> [i \in DOMAIN pin.calls |-> Null],
              step |-> [i \in DOMAIN pin.calls |-> 0],
              order |-> <<>>,
              folded |-> FALSE,
              ws |-> [messages |-> pin.snap.messages, todos |-> Some(2), files |-> Some(1)]]
  /\ UNCHANGED <<agentsMap, stack, nextId, last, pin>>

\* A tool whose function does not wait runs from its first statement to its
\* return; the runtime takes the calls in any order.
RunCall ==
  /\ pout.fn = "turn"
  /\ \E i \in DOMAIN pin.calls :
       /\ pout.at[i] = "called"
       /\ ~IsDispatch(pin.calls[i])
       /\ LET ran == RunToolAt(pout.heap, pout.snap, pin.calls[i], i)
          IN  pout' = [pout EXCEPT !.heap = ran.heap, !.rets[i] = ran.ret,
                                   !.at[i] = "returned", !.order = Append(@, i)]
  /\ UNCHANGED <<agentsMap, stack, nextId, last, pin>>

\* The task tool builds modifiedState, which holds the files and todos of
\* the turn's state object, and invokes the agent on it; while it waits,
\* the other calls of the turn and the child's own calls go on.
TaskBegin ==
  /\ pout.fn = "turn"
  /\ \E i \in DOMAIN pin.calls :
       /\ pout.at[i] = "called"
       /\ IsDispatch(pin.calls[i])
       /\ LET invoked == Invoke(pout.heap,
                                ModifiedState(pout.snap, pin.calls[i].input.description))
          IN  pout' = [pout EXCEPT !.heap = invoked.heap,
                                   !.child[i] = Some(invoked.state),
                                   !.at[i] = "waiting"]
  /\ UNCHANGED <<agentsMap, stack, nextId, last, pin>>

\* The child makes its next call, and its channels take the result.  The
\* j-th call of the child of call i has the identifier 10 * i + j.
ChildCall ==
  /\ pout.fn = "turn"
  /\ \E i \in DOMAIN pin.calls :
       /\ pout.at[i] = "waiting"
       /\ pout.step[i] < Len(pin.calls[i].script)
       /\ LET id == 10 * i + pout.step[i] + 1
              ran == RunToolAt(pout.heap, pout.child[i].v,
                               pin.calls[i].script[pout.step[i] + 1], id)
              took == ApplyResultAt(ran.heap, pout.child[i].v, ToolNode(ran.ret, id))
          IN  pout' = [pout EXCEPT !.heap = took.heap,
                                   !.child[i] = Some(took.state),
                                   !.step[i] = @ + 1]
  /\ UNCHANGED <<agentsMap, stack, nextId, last, pin>>

\* The child's run ends and the task tool returns result.files, the object
\* of the child's files channel, in its Command.
TaskEnd ==
  /\ pout.fn = "turn"
  /\ \E i \in DOMAIN pin.calls :
       /\ pout.at[i] = "waiting"
       /\ pout.step[i] = Len(pin.calls[i].script)
       /\ ~pin.calls[i].throws
       /\ LET result == [pout.child[i].v EXCEPT
                              !.messages = Append(@, AIMessage(<<"done">>))]
          IN  pout' = [pout EXCEPT
                         !.rets[i] = Command([TaskSuccess(ValueOf(pout.heap, result), i).update
                                                EXCEPT !.files = result.files]),
                         !.at[i] = "returned", !.order = Append(@, i)]
  /\ UNCHANGED <<agentsMap, stack, nextId, last, pin>>

\* The child's run throws: the task tool returns the Command of its catch.
TaskThrow ==
  /\ pout.fn = "turn"
  /\ \E i \in DOMAIN pin.calls, errorMessage \in ErrorMessages :
       /\ pout.at[i] = "waiting"
       /\ pin.calls[i].throws
       /\ pout' = [pout EXCEPT
                     !.rets[i] = TaskFailure(pin.calls[i].input, errorMessage, i),
                     !.at[i] = "returned", !.order = Append(@, i)]
  /\ UNCHANGED <<agentsMap, stack, nextId, last, pin>>

\* All calls have returned: the channels take what the tools node made of
\* their results, in call order.
FoldTurn ==
  /\ pout.fn = "turn"
  /\ \A i \in DOMAIN pin.calls : pout.at[i] = "returned"
  /\ ~pout.folded
  /\ LET took == FoldResultsAt(pout.heap, pout.snap,
                               [i \in DOMAIN pin.calls |-> ToolNode(pout.rets[i], i)])
     IN  pout' = [pout EXCEPT !.heap = took.heap, !.ws = took.state, !.folded = TRUE]
  /\ UNCHANGED <<agentsMap, stack, nextId, last, pin>>

NextTurn ==
  \/ StartTurn
  \/ RunCall
  \/ TaskBegin
  \/ ChildCall
  \/ TaskEnd
  \/ TaskThrow
  \/ FoldTurn

SpecTurn == InitTurn /\ [][NextTurn]_vars

RECURSIVE RunScript(_, _, _, _)
\* The state a child reaches from state by the calls of script from the
\* j-th on, each call on the state the one before it left.
RunScript(state, script, i, j) ==
  IF j > Len(script) THEN state
  ELSE RunScript(ApplyResult(state, ToolNode(RunTool(script[j], state, 10 * i + j),
                                             10 * i + j)),
                 script, i, j + 1)

\* The result of call i of a turn, when the call is made on the state snap
\* with nothing else going on.
ResultAlone(snap, call, i) ==
  IF ~IsDispatch(call) THEN RunTool(call, snap, i)
  ELSE IF call.throws
    THEN TaskFailure(call.input, CHOOSE errorMessage \in ErrorMessages : TRUE, i)
  ELSE LET final == RunScript(ModifiedState(snap, call.input.description),
                              call.script, i, 1)
       IN  TaskSuccess([final EXCEPT !.messages = Append(@, AIMessage(<<"done">>))], i)

\* ------------------------------------------- folds of the files reducer

\* File maps as JavaScript objects hold them: array-index keys in front.
FoldMaps ==
  FileMaps
    \cup { <<[k |-> "1", v |-> <<"b">>]>>,
           <<[k |-> "1", v |-> <<"a", "a">>], [k |-> "/a", v |-> <<"b">>]>> }

InitFold ==
  /\ AtRest
  /\ pin \in [a : FoldMaps, b : FoldMaps, c : FoldMaps]
  /\ pout = NoPure

\* The files channel holding a receives the updates b and c one after the
\* other; or the one update made of b and c merged beforehand; or a itself.
ApplyFold ==
  /\ pout.fn = "none"
  /\ pout' = [fn |-> "fold",
              oneByOne |-> fileReducer(Some(fileReducer(Some(pin.a), Some(pin.b))),
                                       Some(pin.c)),
              merged |-> fileReducer(Some(pin.a),
                                     Some(fileReducer(Some(pin.b), Some(pin.c)))),
              twice |-> fileReducer(Some(pin.a), Some(pin.a))]
  /\ UNCHANGED <<agentsMap, stack, nextId, last, pin>>

NextFold == ApplyFold

SpecFold == InitFold /\ [][NextFold]_vars

\* -------------------------------------------------------------- properties

\* s is a prefix of t.
IsPrefix(s, t) == Len(s) <= Len(t) /\ SubSeq(t, 1, Len(s)) = s

\* The state of the agent the last call acted on is the state the call left.
LastIsCurrent == last.depth = Depth /\ Folded(stack[last.depth]) = last.post

\* C1: a successful dispatch leaves the parent's todos as they were before
\* the call and lengthens the parent's message log by exactly one message,
\* whatever the child did to its own todos and messages; of the update's
\* channels only files carries child state.
C1_DispatchChangesOnlyFiles ==
  last.op = "task_ok" =>
    /\ LastIsCurrent
    /\ last.post.todos = last.pre.todos
    /\ Len(last.post.messages) = Len(last.pre.messages) + 1
    /\ IsPrefix(last.pre.messages, last.post.messages)
    /\ last.ret.update.todos.isNull
    /\ ~last.ret.update.files.isNull

C1_Witness ==
  /\ last.op = "task_ok"
  /\ last.child.todos # last.pre.todos
  /\ Len(last.child.messages) > 2
  /\ last.post.files # last.pre.files

\* C2: a failed nested run makes dispatch return a Command holding exactly
\* one tool message and neither files nor todos, so the parent's files and
\* todos are those before the call, also when the child had already written
\* files or todos of its own.
C2_FailedDispatchIsOneMessage ==
  last.op = "task_failed" =>
    /\ LastIsCurrent
    /\ last.ret.kind = "command"
    /\ Len(last.ret.update.messages) = 1
    /\ last.ret.update.messages[1].type = "tool"
    /\ last.ret.update.messages[1].tool_call_id = last.id
    /\ last.ret.update.files.isNull
    /\ last.ret.update.todos.isNull
    /\ last.post.files = last.pre.files
    /\ last.post.todos = last.pre.todos

C2_Witness ==
  /\ last.op = "task_failed"
  /\ last.child.files # last.pre.files
  /\ last.post.files = last.pre.files
  /\ ~last.pre.todos.isNull /\ last.pre.todos.v # <<>>

\* C3 as stated: dispatch to a name that is not registered returns a string
\* naming the registered agents, starts no child run and leaves the parent's
\* messages, todos and files as they were before the call.
C3_UnknownAgentLeavesWorkspace ==
  last.op = "task_unknown" =>
    /\ last.ret.kind = "string"
    /\ last.ret.update = NoUpdate
    /\ last.post = last.pre

\* C3: dispatch to a name that is not registered returns (does not raise)
\* a string naming the registered agents, starts no child run and returns
\* no update: the parent's todos and files are those before the call, and
\* the parent's messages gain exactly one tool message, which carries the
\* returned text under the identifier of the call.
C3_UnknownAgentIsNotFound ==
  last.op = "task_unknown" =>
    /\ LastIsCurrent
    /\ last.ret.kind = "string"
    /\ last.ret.tag = "Error: Agent not found"
    /\ last.ret.text = <<last.input.subagent_type>>
                         \o [i \in DOMAIN agentsMap |-> agentsMap[i].k]
    /\ last.ret.update = NoUpdate
    /\ last.post.todos = last.pre.todos
    /\ last.post.files = last.pre.files
    /\ last.post.messages
         = Append(last.pre.messages,
                  ToolMessage(<<last.ret.tag>> \o last.ret.text, last.id))

C3_Witness ==
  /\ last.op = "task_unknown"
  /\ last.input.subagent_type = "nobody"
  /\ Keys(agentsMap) = {"researcher", "writer"}
  /\ ~last.pre.files.isNull /\ last.pre.files.v # <<>>
  /\ Len(Folded(stack[last.depth]).messages) = Len(last.pre.messages) + 1

\* C8: after write_todos(list) the todos are the list exactly (empty, with
\* duplicates, in any order), one acknowledgement message is appended and
\* files are unchanged.
C8_WriteTodosReplaces ==
  last.op = "write_todos" =>
    /\ LastIsCurrent
    /\ last.post.todos = Some(last.input.todos)
    /\ Len(last.post.messages) = Len(last.pre.messages) + 1
    /\ IsPrefix(last.pre.messages, last.post.messages)
    /\ last.post.messages[Len(last.post.messages)].type = "tool"
    /\ last.post.files = last.pre.files

\* C4: when the write/edit calls of one turn, all computed on the turn's
\* state, target pairwise distinct paths, then after their updates are
\* folded in call order every targeted path holds the content its own call
\* produced.
C4_DisjointWritesCombine ==
  \A d \in 1..Depth :
    LET f == stack[d]
    IN  ( /\ f.phase = "tools"
          /\ Len(f.turnLog) >= 2
          /\ f.calls = Len(f.turnLog)
          /\ \A i, j \in DOMAIN f.turnLog :
               i # j => f.turnLog[i].path # f.turnLog[j].path )
        => \A i \in DOMAIN f.turnLog :
             /\ Has(FilesOf(Folded(f)), f.turnLog[i].path)
             /\ Get(FilesOf(Folded(f)), f.turnLog[i].path) = f.turnLog[i].content

\* C7: write(path, content) always succeeds, and after its update is folded
\* files[path] = content while every other path is as it was before.
C7_WriteChangesOnlyItsPath ==
  last.op = "write_file" =>
    /\ last.ret.kind = "command"
    /\ Has(FilesOf(last.post), last.input.file_path)
    /\ Get(FilesOf(last.post), last.input.file_path) = last.input.content
    /\ \A q \in Paths \ {last.input.file_path} :
         /\ Has(FilesOf(last.post), q) <=> Has(FilesOf(last.pre), q)
         /\ Has(FilesOf(last.pre), q) =>
              Get(FilesOf(last.post), q) = Get(FilesOf(last.pre), q)

\* C5: fileReducer(a, b) is the key-wise union of a and b with b's value on
\* every shared key; fileReducer(a, null) = a; fileReducer(null, b) = b;
\* fileReducer(null, null) = {}.
C5_FileReducerIsRightBiasedUnion ==
  pout.fn = "fileReducer" =>
    LET a == pin.fl
        b == pin.fr
        r == pout.res
    IN  /\ (~a.isNull /\ ~b.isNull) =>
             /\ Keys(r) = Keys(a.v) \cup Keys(b.v)
             /\ Cardinality(Keys(r)) = Len(r)
             /\ \A k \in Keys(r) :
                  Get(r, k) = IF Has(b.v, k) THEN Get(b.v, k) ELSE Get(a.v, k)
        /\ (~a.isNull /\ b.isNull) => r = a.v
        /\ (a.isNull /\ ~b.isNull) => r = b.v
        /\ (a.isNull /\ b.isNull) => r = <<>>

C5_Witness ==
  /\ pout.fn = "fileReducer"
  /\ ~pin.fl.isNull /\ ~pin.fr.isNull
  /\ Keys(pin.fl.v) = {"/a", "/b"} /\ Keys(pin.fr.v) = {"/a"}
  /\ Get(pin.fl.v, "/a") # Get(pin.fr.v, "/a")
  /\ Get(pout.res, "/a") = Get(pin.fr.v, "/a")
  /\ Get(pout.res, "/b") = Get(pin.fl.v, "/b")

\* C6: for todo lists a and b, todoReducer(a, b) = b whenever b is not null,
\* the empty list included; todoReducer(a, null) = a.
C6_TodoReducerReplaces ==
  (pout.fn = "todoReducer" /\ ~pin.tl.isNull) =>
    pout.res = IF pin.tr.isNull THEN pin.tl.v ELSE pin.tr.v

C6_Witness ==
  /\ pout.fn = "todoReducer"
  /\ pin.tl = Some(<<T1, T1>>)
  /\ pin.tr = Some(<<>>)
  /\ pout.res = <<>>

\* old occurs in s at two positions that do not overlap.
TwoOccurrences(s, old) ==
  \E i, j \in 1..(Len(s) + 1) :
    /\ i < j
    /\ i + Len(old) <= j
    /\ MatchAt(s, old, i)
    /\ MatchAt(s, old, j)

\* C9: on an existing path whose content holds two or more non-overlapping
\* occurrences of old, edit with replaceAll = false returns the ambiguity
\* message and no update, so files is unchanged.
C9_AmbiguousEditIsRefused ==
  ( /\ pout.fn = "editFile"
    /\ pin.file_path = "/a"
    /\ ~pin.replace_all
    /\ TwoOccurrences(pin.content, pin.old_string) )
  => /\ pout.ret.kind = "string"
     /\ pout.ret.tag = "Error: String appears several times in file"
     /\ pout.ret.update = NoUpdate
     /\ pout.post = EditState(pin.content)

C9_Witness ==
  /\ pout.fn = "editFile"
  /\ pin.file_path = "/a"
  /\ ~pin.replace_all
  /\ pin.content = <<"a", "b", "a">>
  /\ pin.old_string = <<"a">>
  /\ pout.ret.kind = "string"
  /\ pout.post = EditState(pin.content)

RECURSIVE LiteralReplaceAll(_, _, _)
\* s with every occurrence of the non-empty old, found left to right without
\* overlap, replaced by the characters of new; the text between them kept.
LiteralReplaceAll(s, old, new) ==
  IF ~Includes(s, old) THEN s
  ELSE SubSeq(s, 1, IndexOf(s, old) - 1) \o new
         \o LiteralReplaceAll(SubSeq(s, IndexOf(s, old) + Len(old), Len(s)), old, new)

\* C10: on an existing path whose content holds old k >= 1 times, edit with
\* replaceAll = true yields the content with all k occurrences replaced by
\* new and the text between them unchanged, and every other path keeps its
\* content.
C10_ReplaceAllReplacesEveryOccurrence ==
  ( /\ pout.fn = "editFile"
    /\ pin.file_path = "/a"
    /\ pin.replace_all
    /\ pin.old_string # <<>>
    /\ Includes(pin.content, pin.old_string) )
  => /\ pout.ret.kind = "command"
     /\ Keys(FilesOf(pout.post)) = {"/a", "/b"}
     /\ Get(FilesOf(pout.post), "/a")
          = LiteralReplaceAll(pin.content, pin.old_string, pin.new_string)
     /\ Get(FilesOf(pout.post), "/b") = Get(FilesOf(EditState(pin.content)), "/b")

\* C11: edit returns a not-found message and no update, leaving the state as
\* it was, whenever the path is not a key of files or old is not a literal
\* substring of the content, whether replaceAll is set or not.
C11_EditNotFoundChangesNothing ==
  ( /\ pout.fn = "editFile"
    /\ \/ ~Has(FilesOf(EditState(pin.content)), pin.file_path)
       \/ /\ pin.file_path = "/a"
          /\ \A i \in 1..(Len(pin.content) - Len(pin.old_string) + 1) :
               SubSeq(pin.content, i, i + Len(pin.old_string) - 1) # pin.old_string )
  => /\ pout.ret.kind = "string"
     /\ pout.ret.tag \in {"Error: File not found", "Error: String not found in file"}
     /\ pout.ret.update = NoUpdate
     /\ pout.post = EditState(pin.content)

\* The number of lines in a rendered answer of read_file.
RenderedLines(text) ==
  IF text = <<>> THEN 0 ELSE Cardinality({i \in DOMAIN text : text[i] = "\n"}) + 1

\* The number of lines of a content: one more than its newlines.
LineCount(content) == Cardinality({i \in DOMAIN content : content[i] = "\n"}) + 1

\* C12: for an existing path whose content is not the empty string and has
\* L lines, read(path, offset, limit) returns exactly min(limit, L - offset)
\* numbered lines when 0 <= offset < L and the offset error when
\* offset >= L.
C12_ReadReturnsTheWindow ==
  ( /\ pout.fn = "readFile"
    /\ pin.file_path = "/a"
    /\ pin.content # <<>>
    /\ ~pin.offset.isNull /\ pin.offset.v >= 0
    /\ ~pin.limit.isNull /\ pin.limit.v >= 0 )
  => IF pin.offset.v < LineCount(pin.content)
       THEN /\ pout.ret.kind = "string"
            /\ pout.ret.tag = "lines"
            /\ RenderedLines(pout.ret.text)
                 = Min(pin.limit.v, LineCount(pin.content) - pin.offset.v)
       ELSE /\ pout.ret.kind = "string"
            /\ pout.ret.tag = "Error: Line offset exceeds file length"

\* C13: every error of a workspace tool is reported as a string result and
\* never as a raised exception; stated here for read_file: for all arguments
\* its schema accepts (missing paths, negative or out-of-range offsets and
\* limits, empty contents) it returns a string or an update.
C13_ReadNeverRaises ==
  pout.fn = "readFile" => pout.ret.kind \in {"string", "command"}

\* C14: when a dispatch starts a child, the child's initial message history
\* is exactly one user message whose content equals the task, and no message
\* of the parent's log is in the child's initial state.
C14_ChildStartsFromTheTaskAlone ==
  last.op = "task_start"
  => /\ Depth >= 2
     /\ Folded(Top).messages = <<UserMessage(<<last.input.description>>)>>
     /\ Top.snap.messages = Folded(Top).messages
     /\ \A i \in DOMAIN Folded(stack[Depth - 1]).messages :
          \A j \in DOMAIN Folded(Top).messages :
            Folded(Top).messages[j] # Folded(stack[Depth - 1]).messages[i]

C14_Witness ==
  /\ last.op = "task_start"
  /\ Depth = 2
  /\ Len(Folded(stack[1]).messages) >= 3
  /\ Len(Folded(Top).messages) = 1

\* C15: a child agent registered without a tool restriction itself exposes
\* the task tool (so that a child can dispatch to a further child, to any
\* depth): every running child of such an agent has "task" among its tools.
C15_UnrestrictedChildExposesTask ==
  \A d \in 2..Depth :
    (\E i \in DOMAIN SubAgents :
        SubAgents[i].name = stack[d].agent /\ SubAgents[i].tools.isNull)
    => "task" \in stack[d].tools

\* The combined catalog: every built-in and caller-supplied name, with the
\* caller's tool where a name is shared.
Catalog(userTools) ==
  { [k |-> n, v |-> IF \E i \in DOMAIN userTools : userTools[i].k = n
                      THEN "user" ELSE "builtin"] :
      n \in {"write_todos", "ls", "read_file", "write_file", "edit_file"}
              \cup {userTools[i].k : i \in DOMAIN userTools} }

\* C16: at registration every sub-agent is registered, and its tool set is
\* the entire combined catalog when it names no tools, otherwise exactly the
\* catalog tools whose names it lists (possibly none); names that are not in
\* the catalog are dropped.
C16_RegisteredToolSets ==
  pout.fn = "createTaskTool"
  => \A i \in DOMAIN pin.subagents :
       LET sub == pin.subagents[i]
           isLast == \A j \in DOMAIN pin.subagents :
                       j > i => pin.subagents[j].name # sub.name
           registered == Get(pout.agents, sub.name).tools
       IN  /\ Has(pout.agents, sub.name)
           /\ isLast =>
                {registered[j] : j \in DOMAIN registered}
                  = IF sub.tools.isNull THEN Catalog(pin.tools)
                    ELSE {t \in Catalog(pin.tools) :
                            \E j \in DOMAIN sub.tools.v : sub.tools.v[j] = t.k}

\* C17: from the start of a dispatch until its child finishes or fails, no
\* step of the child changes the parent's files, todos or messages and the
\* parent takes no step of its own; the child's file writes reach the parent
\* only all at once, in the single update of a successful return, which adds
\* one message and leaves the todos alone.
C17_ParentWaitsForChild ==
  [][ Depth >= 2 =>
        IF Len(stack') >= Depth
          THEN SubSeq(stack', 1, Depth - 1) = SubSeq(stack, 1, Depth - 1)
          ELSE /\ Len(stack') = Depth - 1
               /\ SubSeq(stack', 1, Depth - 2) = SubSeq(stack, 1, Depth - 2)
               /\ Folded(stack'[Depth - 1]).todos = Folded(stack[Depth - 1]).todos
               /\ Len(Folded(stack'[Depth - 1]).messages)
                    = Len(Folded(stack[Depth - 1]).messages) + 1
               /\ FilesOf(Folded(stack'[Depth - 1])) # FilesOf(Folded(stack[Depth - 1]))
                    => /\ last'.op = "task_ok"
                       /\ FilesOf(Folded(stack'[Depth - 1]))
                            = Spread(FilesOf(Folded(stack[Depth - 1])), FilesOf(Folded(Top))) ]_vars

C17_Witness ==
  /\ Depth = 2
  /\ last.op = "write_file"
  /\ last.depth = 2
  /\ Has(FilesOf(Folded(Top)), last.input.file_path)
  /\ ~Has(FilesOf(Folded(stack[1])), last.input.file_path)
  /\ stack[1].phase = "tools"

\* C19: the message log is append-only: over every step (a tool call, a
\* dispatch, a return, a model answer) the log of every running agent before
\* the step is a prefix of its log after the step.
C19_MessagesAreAppendOnly ==
  [][ \A d \in DOMAIN stack :
        d \in DOMAIN stack'
          => IsPrefix(Folded(stack[d]).messages, Folded(stack'[d]).messages) ]_vars

C19_Witness ==
  /\ last.op = "task_ok"
  /\ Depth = 1
  /\ Len(last.pre.messages) >= 3
  /\ Len(Folded(Top).messages) = Len(last.pre.messages) + 1
  /\ Folded(Top).messages[Len(Folded(Top).messages)].type = "tool"

\* The paths of the model that begin with "/".
AbsolutePaths == {"/a", "/b", "/c"}

\* C20: every key of files is an absolute path (it begins with "/"), in the
\* state of every running agent, after every sequence of write, edit and
\* dispatch calls with arguments their schemas accept.
C20_FileKeysAreAbsolute ==
  \A d \in DOMAIN stack : Keys(FilesOf(Folded(stack[d]))) \subseteq AbsolutePaths

\* C18: two top-level invocations that share the catalog and the registry
\* but own their states cannot affect one another: under every interleaving
\* of their tool calls and dispatches, the running agents and the workspace
\* of each are, at every point and so at the end, those of its twin, the
\* same invocation making the same choices alone; and the registry stays
\* the one built at construction.
C18_InvocationsDoNotInterfere ==
  pout.fn = "shared" =>
    /\ agentsMap = Registry
    /\ last.alone = [stack |-> stack, nextId |-> nextId]
    /\ pin.last.alone = [stack |-> pin.stack, nextId |-> pin.nextId]

C18_Witness ==
  /\ pout.fn = "shared"
  /\ pout.running = 1
  /\ last.op = "write_file"
  /\ pin.last.op = "task_ok"
  /\ FilesOf(Folded(stack[1])) # <<>>
  /\ FilesOf(Folded(pin.stack[1])) = <<>>
  /\ last.alone.stack = stack
  /\ pin.last.alone.stack = pin.stack

\* C21: createDeepAgent called without a model (with or without tools and
\* subagents) returns an agent that uses a default model; it does not fail
\* at construction.
C21_DefaultModelIsUsed ==
  (pout.fn \in {"createDeepAgent", "createTaskTool"} /\ pin.model.isNull)
  => /\ pout.fn = "createTaskTool"
     /\ pout.model.kind = "model"

\* The paths of a files object, in the order Object.keys gives them.
KeySeq(f) == [i \in DOMAIN f |-> f[i].k]

\* C22: list() returns exactly the paths in files, each once, in the order
\* in which the paths were first inserted: over every step (a write, an
\* edit, a return of a dispatch) the paths an agent already had keep their
\* places and new paths come after them, and ls answers with that sequence.
C22_ListIsInsertionOrdered ==
  [][ /\ \A d \in DOMAIN stack :
           d \in DOMAIN stack'
             => IsPrefix(KeySeq(FilesOf(Folded(stack[d]))), KeySeq(FilesOf(Folded(stack'[d]))))
      /\ last'.op = "ls"
           => /\ last'.ret.text = KeySeq(FilesOf(last'.snap))
              /\ \A i, j \in DOMAIN last'.ret.text :
                   last'.ret.text[i] = last'.ret.text[j] => i = j ]_vars

\* C23: for a given state before the turn and given calls in call order, the
\* state obtained by folding the calls' updates through the reducers in call
\* order is the same for every order and interleaving in which the calls,
\* and the children of the dispatches among them, are run: it is the fold,
\* in call order, of the result each call gives alone on the state before
\* the turn.
C23_FoldIsIndependentOfExecutionOrder ==
  (pout.fn = "turn" /\ pout.folded)
  => ValueOf(pout.heap, pout.ws)
       = FoldResults(pin.snap,
                     [i \in DOMAIN pin.calls |->
                        ToolNode(ResultAlone(pin.snap, pin.calls[i], i), i)])

C23_Witness ==
  /\ pout.fn = "turn"
  /\ pout.folded
  /\ pout.order = <<2, 1>>
  /\ IsDispatch(pin.calls[1])
  /\ pin.calls[1].script # <<>>
  /\ pout.step[1] = 1
  /\ pin.calls[2].op = "write_file"
  /\ pin.calls[2].input.file_path = "/a"
  /\ pout.rets[1].kind = "command"
  /\ ~pout.rets[1].update.files.isNull
  /\ ValueOf(pout.heap, pout.ws).files # pin.snap.files

\* The positions at which old occurs in s.
OccurrencesAt(s, old) ==
  {i \in 1..(Len(s) - Len(old) + 1) : SubSeq(s, i, i + Len(old) - 1) = old}

\* C24: on an existing path whose content holds exactly one occurrence of
\* old, edit with replaceAll = false sets the content to the text before the
\* occurrence, then new character for character (whatever new is, "$"
\* sequences and old itself included), then the text after it; no other
\* path changes.
C24_SingleEditInsertsNewLiterally ==
  ( /\ pout.fn = "editFile"
    /\ pin.file_path = "/a"
    /\ ~pin.replace_all
    /\ Cardinality(OccurrencesAt(pin.content, pin.old_string)) = 1 )
  => LET i == CHOOSE j \in OccurrencesAt(pin.content, pin.old_string) : TRUE
     IN  /\ pout.ret.kind = "command"
         /\ Keys(FilesOf(pout.post)) = {"/a", "/b"}
         /\ Get(FilesOf(pout.post), "/a")
              = SubSeq(pin.content, 1, i - 1) \o pin.new_string
                  \o SubSeq(pin.content, i + Len(pin.old_string), Len(pin.content))
         /\ Get(FilesOf(pout.post), "/b") = Get(FilesOf(EditState(pin.content)), "/b")

\* C25: read applies its checks in a fixed order: an absent path gives the
\* not-found message; otherwise the empty string as content gives the
\* empty-file sentinel for every offset and limit; otherwise, and only then,
\* the content is split and answered with numbered lines or the offset
\* error, never with the sentinel, also when it holds only spaces or
\* newlines.
C25_ReadChecksInOrder ==
  pout.fn = "readFile"
  => IF pin.file_path # "/a"
       THEN pout.ret.tag = "Error: File not found"
     ELSE IF pin.content = <<>>
       THEN pout.ret.tag = "System reminder: File exists but has empty contents"
     ELSE pout.ret.kind = "string"
            => pout.ret.tag \in {"lines", "Error: Line offset exceeds file length"}

RECURSIVE DecimalValue(_)
\* The number a sequence of digit characters writes.
DecimalValue(digits) ==
  IF digits = <<>> THEN 0
  ELSE DecimalValue(SubSeq(digits, 1, Len(digits) - 1)) * 10
         + (CHOOSE d \in 0..9 : DigitChar(d) = <<digits[Len(digits)]>>)

\* The field of six characters holds n right-justified: spaces, then the
\* digits of n with no leading zero.
IsRightJustified(field, n) ==
  \E p \in 0..5 :
    /\ \A i \in 1..p : field[i] = " "
    /\ \A i \in (p + 1)..6 : field[i] \in {"0", "1", "2", "3", "4", "5", "6", "7", "8", "9"}
    /\ field[p + 1] # "0"
    /\ DecimalValue(SubSeq(field, p + 1, 6)) = n

\* C26: for a successful read(path, offset, limit) the k-th returned line is
\* the file's line with 0-based index offset + k - 1, rendered as the number
\* offset + k right-justified in six characters, one tab, and the line's
\* content cut to its first 2000 characters; the rendered lines are joined
\* by newlines in file order.
C26_LinesAreRendered ==
  (pout.fn = "readFile" /\ pout.ret.tag = "lines")
  => LET offset == IF pin.offset.isNull THEN 0 ELSE pin.offset.v
         limit == IF pin.limit.isNull THEN 2000 ELSE pin.limit.v
         lines == Split(pin.content)
         last1 == Min(offset + limit, Len(lines))
         n == IF last1 > offset THEN last1 - offset ELSE 0
         out == Split(pout.ret.text)
     IN  IF n = 0 THEN pout.ret.text = <<>>
         ELSE /\ Len(out) = n
              /\ \A k \in 1..n :
                   LET line == lines[offset + k]
                       kept == IF Len(line) > 2000 THEN 2000 ELSE Len(line)
                   IN  /\ Len(out[k]) = 7 + kept
                       /\ IsRightJustified(SubSeq(out[k], 1, 6), offset + k)
                       /\ out[k][7] = "\t"
                       /\ SubSeq(out[k], 8, Len(out[k])) = SubSeq(line, 1, kept)

C26_Witness ==
  /\ pout.fn = "readFile"
  /\ pout.ret.tag = "lines"
  /\ pin.content = <<"a", "\n">> \o LongLine
  /\ pin.offset = Some(1)
  /\ pin.limit = Some(2)
  /\ Len(pout.ret.text) = 2007
  /\ SubSeq(pout.ret.text, 1, 8) = <<" ", " ", " ", " ", " ", "2", "\t", "a">>

\* C27: the registry is built once at construction, with one configured
\* agent for each sub-agent given, and is only read afterwards: after any
\* sequence of dispatches (successful, failing, to unknown names) its keys
\* and the agent under each key are those of the construction, and a
\* dispatch builds no agent: the running child is the registered one.
C27_RegistryIsReadOnly ==
  /\ agentsMap = CreateAgents(SubAgents, AllTools(ToolsMap(BUILTIN_TOOLS \o UserTools)))
  /\ Keys(agentsMap) = {SubAgents[i].name : i \in DOMAIN SubAgents}
  /\ Len(agentsMap) = Len(SubAgents)
  /\ \A d \in 2..Depth :
       /\ Has(agentsMap, stack[d].agent)
       /\ stack[d].tools = Keys(Get(agentsMap, stack[d].agent).tools)

C27_Witness ==
  /\ last.op = "task_start"
  /\ last.id = 3
  /\ Top.agent = "researcher"
  /\ "hello" \in Top.tools
  /\ Len(Folded(stack[1]).messages) >= 4

\* C28: for every dispatch to a registered sub-agent the child's initial
\* files and todos are those of the parent's state at the moment of the
\* call, and no later step of the child alters that state of the parent.
C28_ChildStartsFromParentSnapshot ==
  [][ /\ last'.op = "task_start"
           => /\ Len(stack') = Depth + 1
              /\ Folded(stack'[Depth + 1]).files = Top.snap.files
              /\ Folded(stack'[Depth + 1]).todos = Top.snap.todos
              /\ stack'[Depth].snap = Top.snap
      /\ (Depth >= 2 /\ Len(stack') >= Depth)
           => /\ stack'[Depth - 1].snap.files = stack[Depth - 1].snap.files
              /\ stack'[Depth - 1].snap.todos = stack[Depth - 1].snap.todos ]_vars

C28_Witness ==
  /\ Depth = 2
  /\ last.op = "plan"
  /\ last.depth = 2
  /\ ~stack[1].snap.files.isNull /\ stack[1].snap.files.v # <<>>
  /\ Folded(Top).files = stack[1].snap.files
  /\ Folded(Top).todos # stack[1].snap.todos

\* C29: on a successful dispatch the one message appended to the parent
\* carries the content of the last message of the child's final history,
\* or the text "Task completed" when there is no last message or its content
\* is empty; no other message of the child reaches the parent: the parent's
\* log is its log before the call plus that one message.
C29_ParentGetsLastChildContent ==
  last.op = "task_ok"
  => LET child == last.child.messages
         expected == IF child = <<>> THEN <<"Task completed">>
                     ELSE IF child[Len(child)].content = <<>> THEN <<"Task completed">>
                     ELSE child[Len(child)].content
     IN  /\ Len(last.post.messages) = Len(last.pre.messages) + 1
         /\ SubSeq(last.post.messages, 1, Len(last.pre.messages)) = last.pre.messages
         /\ last.post.messages[Len(last.post.messages)].type = "tool"
         /\ last.post.messages[Len(last.post.messages)].content = expected
         /\ last.post.messages[Len(last.post.messages)].tool_call_id = last.id

C29_Witness ==
  /\ last.op = "task_ok"
  /\ Len(last.child.messages) >= 4
  /\ last.child.messages[Len(last.child.messages)].content = <<>>
  /\ last.post.messages[Len(last.post.messages)].content = <<"Task completed">>

\* C30: every tool message in an update made by write_file, edit_file,
\* write_todos or the task tool (on success and on caught failure) carries
\* the identifier of the call that produced it, so the tool messages of an
\* agent's log, several calls of one turn included, belong to distinct calls.
C30_ToolMessagesCarryTheirCallId ==
  /\ last.op \in {"write_file", "write_todos", "task_ok", "task_failed"}
       => last.ret.kind \in {"command", "object"}
  /\ (last.op \in {"write_file", "edit_file", "write_todos", "task_ok", "task_failed"}
        /\ last.ret.kind \in {"command", "object"})
       => /\ Len(last.ret.update.messages) = 1
          /\ last.ret.update.messages[1].type = "tool"
          /\ last.ret.update.messages[1].tool_call_id = last.id
          /\ last.id >= 1
  /\ \A d \in DOMAIN stack :
       \A i, j \in DOMAIN Folded(stack[d]).messages :
         ( /\ i # j
           /\ Folded(stack[d]).messages[i].type = "tool"
           /\ Folded(stack[d]).messages[j].type = "tool" )
         => Folded(stack[d]).messages[i].tool_call_id # Folded(stack[d]).messages[j].tool_call_id

C30_Witness ==
  /\ Depth = 1
  /\ last.op = "task_failed"
  /\ Top.calls = 2
  /\ Len(Folded(Top).messages) = 4
  /\ Top.rets[1].update.messages[1].content[1] = "update"
  /\ Folded(Top).messages[3].type = "tool" /\ Folded(Top).messages[3].tool_call_id = 1
  /\ Folded(Top).messages[4].type = "tool" /\ Folded(Top).messages[4].tool_call_id = 2

\* C31: no tool and no reducer changes a value it is given.  While the
\* calls of a turn and the children they dispatch run, and while the results
\* are folded by fileReducer and todoReducer, every object that exists keeps
\* its content, so the state object of the turn, which the calls and the
\* children share, holds the files and todos the turn started from; and the
\* files a write or an edit returns are an object that did not exist before.
C31_NothingIsMutatedInPlace ==
  [][ pout.fn = "turn" =>
        /\ pout'.snap = pout.snap
        /\ ValueOf(pout'.heap, pout'.snap) = pin.snap
        /\ Len(pout'.heap) >= Len(pout.heap)
        /\ \A a \in DOMAIN pout.heap : pout'.heap[a] = pout.heap[a]
        /\ \A i \in DOMAIN pin.calls :
             ( /\ pout.at[i] = "called"
               /\ pout'.at[i] = "returned"
               /\ pin.calls[i].op \in {"write_file", "edit_file"}
               /\ pout'.rets[i].kind = "command" )
             => pout'.rets[i].update.files.v \notin DOMAIN pout.heap ]_vars

C31_Witness ==
  /\ pout.fn = "turn"
  /\ Len(pin.calls) = 2
  /\ pout.at[1] = "waiting"
  /\ pout.step[1] = 1
  /\ pout.child[1].v.todos = pout.snap.todos
  /\ pout.child[1].v.files # pout.snap.files
  /\ pout.at[2] = "returned"
  /\ pin.calls[2].op = "write_file"
  /\ pout.rets[2].update.files.v \notin {pout.snap.files.v, pout.child[1].v.files.v}
  /\ ValueOf(pout.heap, pout.snap) = pin.snap
  /\ ValueOf(pout.heap, pout.child[1].v).files # pin.snap.files

\* C32: ls and read_file never return a state update, and neither does an
\* edit_file call that returns an error message: for every state and every
\* argument the files and the todos after the call are those before it.  The
\* messages gain the one tool message that carries what the call returned.
C32_ReadersChangeNothing ==
  ( \/ last.op \in {"ls", "read_file"}
    \/ (last.op = "edit_file" /\ last.ret.kind # "command") )
  => /\ last.ret.kind # "command"
     /\ last.ret.update = NoUpdate
     /\ LastIsCurrent
     /\ last.post.files = last.pre.files
     /\ last.post.todos = last.pre.todos
     /\ Len(last.post.messages) = Len(last.pre.messages) + 1
     /\ IsPrefix(last.pre.messages, last.post.messages)
     /\ last.post.messages[Len(last.post.messages)].type = "tool"
     /\ last.post.messages[Len(last.post.messages)].tool_call_id = last.id
     /\ last.ret.kind = "string"
          => last.post.messages[Len(last.post.messages)].content
               = <<last.ret.tag>> \o last.ret.text

C32_Witness ==
  /\ last.op = "read_file"
  /\ last.ret.tag = "lines"
  /\ Has(FilesOf(last.pre), "/a")
  /\ Folded(Top).files = last.pre.files
  /\ Folded(Top).todos = last.pre.todos
  /\ Len(Folded(Top).messages) = Len(last.pre.messages) + 1

\* C33: a workspace whose files or todos field is absent behaves as one with
\* the empty map and the empty list: ls returns no paths, read_file and
\* edit_file of any path answer that the file is not found, write_file of
\* (path, content) yields the files map {path: content}, and the reducers
\* yield the empty map and the empty list when both arguments are absent.
C33_AbsentIsEmpty ==
  /\ fileReducer(Null, Null) = <<>>
  /\ todoReducer(Null, Null) = <<>>
  /\ (last.op \in {"ls", "read_file", "edit_file", "write_file"}
      /\ last.snap.files.isNull)
     => /\ last.op = "ls" =>
             /\ last.ret = Str("keys", <<>>)
             /\ last.ret = ls([last.snap EXCEPT !.files = Some(<<>>)])
        /\ last.op = "read_file" =>
             /\ last.ret = Str("Error: File not found", <<last.input.file_path>>)
             /\ last.ret = readFile([last.snap EXCEPT !.files = Some(<<>>)], last.input)
        /\ last.op = "edit_file" =>
             /\ last.ret = Str("Error: File not found", <<last.input.file_path>>)
             /\ last.ret = editFile([last.snap EXCEPT !.files = Some(<<>>)], last.input, last.id)
        /\ last.op = "write_file" =>
             /\ last.ret.kind = "command"
             /\ last.ret.update.files =
                  Some(<<[k |-> last.input.file_path, v |-> last.input.content]>>)
             /\ last.ret = writeFile([last.snap EXCEPT !.files = Some(<<>>)], last.input, last.id)
             /\ last.pre.files.isNull => last.post.files = last.ret.update.files
             /\ last.pre.todos.isNull => last.post.todos.isNull

\* C34: the set of paths in files never shrinks: in every step, every path
\* present in a workspace (the parent's or any child's) before the step is
\* still present in that workspace after it, and a child starts with every
\* path of the snapshot it was dispatched on.
C34_PathsNeverShrink ==
  [][ /\ \A d \in 1..Len(stack) :
           d <= Len(stack')
           => Keys(FilesOf(Folded(stack[d]))) \subseteq Keys(FilesOf(Folded(stack'[d])))
      /\ Len(stack') > Len(stack)
           => Keys(FilesOf(Top.snap)) \subseteq Keys(FilesOf(Folded(stack'[Len(stack')])))
    ]_vars

C34_Witness ==
  /\ last.op = "task_ok"
  /\ Keys(FilesOf(last.pre)) = {"/a"}
  /\ Keys(FilesOf(last.child)) = {"/b"}
  /\ Keys(FilesOf(Folded(Top))) = {"/a", "/b"}

\* The child of the dispatch that just returned made a successful write_file
\* or edit_file call on p: both answer "Updated file <p>".
ChildWrotePath(p) ==
  \E i \in DOMAIN last.child.messages :
    /\ last.child.messages[i].type = "tool"
    /\ last.child.messages[i].content = <<"Updated file", p>>

\* C35: in a turn that contains a write or edit on an already existing path p
\* followed in call order by a successful dispatch whose child never writes
\* p, p holds the written content after the dispatch's update is folded: the
\* dispatch's files update does not revert p to its content before the turn.
C35_DispatchKeepsEarlierWrite ==
  (last.op = "task_ok" /\ last.depth = Depth)
  => \A i \in DOMAIN Top.turnLog :
       LET p == Top.turnLog[i].path
           c == Top.turnLog[i].content
       IN  ( /\ Has(FilesOf(last.snap), p)
             /\ \A j \in DOMAIN Top.turnLog : j > i => Top.turnLog[j].path # p
             /\ Has(FilesOf(last.pre), p) /\ Get(FilesOf(last.pre), p) = c
             /\ ~ChildWrotePath(p) )
           => Get(FilesOf(Folded(Top)), p) = c

\* C36: when a successful dispatch is the only state-changing call of its
\* turn, the parent's files after the call equal the child's final files map:
\* every path the child created or changed has the child's content, and every
\* path of the parent's snapshot that the child did not write keeps the
\* parent's content.
C36_LoneDispatchGivesChildFiles ==
  ( /\ last.op = "task_ok"
    /\ last.pre.files = last.snap.files
    /\ last.pre.todos = last.snap.todos )
  => /\ FilesOf(last.post) = FilesOf(last.child)
     /\ Folded(Top) = last.post
     /\ \A p \in Keys(FilesOf(last.child)) :
          Get(FilesOf(Folded(Top)), p) = Get(FilesOf(last.child), p)
     /\ \A p \in Keys(FilesOf(last.snap)) :
          ~ChildWrotePath(p)
          => /\ Has(FilesOf(Folded(Top)), p)
             /\ Get(FilesOf(Folded(Top)), p) = Get(FilesOf(last.snap), p)

C36_Witness ==
  /\ last.op = "task_ok"
  /\ last.pre.files = last.snap.files
  /\ last.pre.todos = last.snap.todos
  /\ Keys(FilesOf(last.snap)) = {"/a"}
  /\ ChildWrotePath("/b")
  /\ ~ChildWrotePath("/a")
  /\ Keys(FilesOf(Folded(Top))) = {"/a", "/b"}
  /\ FilesOf(Folded(Top)) = FilesOf(last.child)

\* C37: when two sub-agent specs share a name, the registry holds a single
\* entry for that name, built from the spec that comes last in the list, and
\* a dispatch to that name gets that last spec's agent; the registry size
\* equals the number of distinct names.
C37_LastSpecOfANameWins ==
  pout.fn = "createTaskTool"
  => LET subs == pin.subagents
         names == {subs[i].name : i \in DOMAIN subs}
         allTools == AllTools(ToolsMap(BUILTIN_TOOLS \o pin.tools))
     IN  /\ Len(pout.agents) = Cardinality(names)
         /\ \A n \in names :
              LET lastIdx == CHOOSE i \in DOMAIN subs :
                               /\ subs[i].name = n
                               /\ \A j \in DOMAIN subs : subs[j].name = n => j <= i
              IN  /\ Cardinality({i \in DOMAIN pout.agents : pout.agents[i].k = n}) = 1
                  /\ Get(pout.agents, n).prompt = subs[lastIdx].prompt
                  /\ Get(pout.agents, n).tools = SubagentTools(subs[lastIdx], allTools)

C37_Witness ==
  /\ pout.fn = "createTaskTool"
  /\ Len(pin.subagents) = 2
  /\ pin.subagents[1].name = pin.subagents[2].name
  /\ pin.subagents[1].tools = Null
  /\ pin.subagents[2].tools = Some(<<"ls", "nope">>)
  /\ Len(pout.agents) = 1
  /\ Keys(pout.agents[1].v.tools) = {"ls"}

\* C38: fileReducer is associative and idempotent over file maps: for all
\* maps a, b, c, fileReducer(fileReducer(a, b), c) = fileReducer(a,
\* fileReducer(b, c)) and fileReducer(a, a) = a, so folding two updates one
\* by one gives the same files as folding their merge.
C38_FileReducerAssociativeIdempotent ==
  pout.fn = "fold"
  => /\ pout.oneByOne = pout.merged
     /\ pout.twice = pin.a

C38_Witness ==
  /\ pout.fn = "fold"
  /\ pin.a = <<[k |-> "/a", v |-> <<"b">>], [k |-> "/b", v |-> <<"b">>]>>
  /\ pin.b = <<[k |-> "/b", v |-> <<"a", "a">>]>>
  /\ pin.c = <<[k |-> "1", v |-> <<"b">>]>>
  /\ pout.oneByOne = <<[k |-> "1", v |-> <<"b">>], [k |-> "/a", v |-> <<"b">>],
                       [k |-> "/b", v |-> <<"a", "a">>]>>
  /\ pout.merged = pout.oneByOne
  /\ pout.twice = pin.a

====
